---- MODULE Spec2Model ----
(***************************************************************************)
(* Model of bestip (AdvancedIPTester): the quality ranking, the proxy      *)
(* scoring engine, the phase-1 quick availability check and the two-phase  *)
(* probing scheduler.                                                      *)
(*                                                                         *)
(* Units: delays, jitter and connect times are integer milliseconds, loss  *)
(* rates and success rates integer percent, download speeds integer Mbps.  *)
(* Python None of a numeric field is NoneVal, a missing dict key Absent,   *)
(* float('inf') is Inf, None of a string field is the string "None".       *)
(***************************************************************************)
EXTENDS Integers, Sequences, FiniteSets, TLC

VARIABLES
    results,        \* self.results
    sort_by,        \* argument of the last sort_results call
    ranked,         \* value returned by the last sort_results call
    reranked,       \* value returned by ranking the ranked list again
    rpc,            \* position of the ranking driver
    test_results,   \* argument of calculate_proxy_score
    score_out,      \* outcome of the calculate_proxy_score call
    spc,            \* position of the scoring driver
    q_pc,           \* quick_availability_check: position in the retry loop
    q_attempt,      \* quick_availability_check: loop variable attempt
    q_result,       \* quick_availability_check: the result dict
    probes,         \* quick_availability_check: ping / tcp probes issued so far
    enable_quick_check, \* self.enable_quick_check
    phase,          \* position of test_targets_two_phase
    quick,          \* phase 1 futures: state and outcome of each target's quick check
    verdict,        \* phase 1: what the collector reported for each target
    available_targets,  \* phase 1: available_targets
    unavailable_count,  \* phase 1: unavailable_count
    deep,           \* phase 2 futures: state and outcome of each target's deep probe
    successful_results, \* history: key and overall score of the successful entries, best first
    history_file,   \* history: what is stored at the history file path
    history,        \* history: value returned by load_history
    comparison,     \* history: value returned by compare_with_history
    mirrored,       \* history: the comparison with current and history exchanged
    recommendation, \* history: the update advice written by save_results_md
    hpc,            \* history: position of the report driver
    data,           \* filter_outliers: argument data
    filtered,       \* filter_outliers: returned list
    fpc,            \* filter_outliers: position of the driver
    raw_targets,    \* load_targets: the target lines read from the sources
    unique_targets, \* load_targets: returned list
    parsed,         \* host and ports derived from each returned target
    lpc,            \* load_targets: position of the driver
    cv_in,          \* calculate_stability_score: argument cv, in tenths of a percent
    cv_score,       \* calculate_stability_score: returned score
    cvpc,           \* calculate_stability_score: position of the driver
    rounds_data,    \* aggregate_multi_round_data: the metric's entry in each round
    filtered_values, \* aggregate_multi_round_data: local filtered_values
    aggregated,     \* aggregate_multi_round_data: returned dict
    apc,            \* aggregate_multi_round_data: position of the driver
    best_results,   \* save_best_results: self.results
    top_n,          \* save_best_results: argument top_n
    best_file,      \* save_best_results: the lines of the output file
    bpc             \* save_best_results: position of the driver

rankVars == <<results, sort_by, ranked, reranked, rpc>>
scoreVars == <<test_results, score_out, spc>>
quickVars == <<q_pc, q_attempt, q_result, probes>>
schedVars == <<enable_quick_check, phase, quick, verdict, available_targets,
               unavailable_count, deep>>

histVars == <<successful_results, history_file, history, comparison, mirrored,
              recommendation, hpc>>
filterVars == <<data, filtered, fpc>>
loadVars == <<raw_targets, unique_targets, parsed, lpc>>
stabVars == <<cv_in, cv_score, cvpc>>
aggVars == <<rounds_data, filtered_values, aggregated, apc>>
bestVars == <<best_results, top_n, best_file, bpc>>
otherVars == <<stabVars, aggVars, bestVars>>

vars == <<results, sort_by, ranked, reranked, rpc, test_results, score_out, spc,
          q_pc, q_attempt, q_result, probes,
          enable_quick_check, phase, quick, verdict, available_targets,
          unavailable_count, deep,
          successful_results, history_file, history, comparison, mirrored,
          recommendation, hpc, data, filtered, fpc,
          raw_targets, unique_targets, parsed, lpc,
          cv_in, cv_score, cvpc,
          rounds_data, filtered_values, aggregated, apc,
          best_results, top_n, best_file, bpc>>

NoneVal == -1
Absent == -2
Inf == 1000000

\* ------------------------------------------------ subsystems at rest
\* the ranking driver at rest
IdleRank ==
    /\ results = <<>>
    /\ sort_by = "none"
    /\ ranked = <<>>
    /\ reranked = <<>>
    /\ rpc = "idle"

\* the scoring driver at rest
IdleScore ==
    /\ test_results = <<>>
    /\ score_out = <<>>
    /\ spc = "idle"

\* no quick check in progress
IdleQuick ==
    /\ q_pc = "idle"
    /\ q_attempt = 0
    /\ q_result = <<>>
    /\ probes = <<>>

\* no two-phase run in progress
IdleSched ==
    /\ enable_quick_check = FALSE
    /\ phase = "idle"
    /\ quick = <<>>
    /\ verdict = <<>>
    /\ available_targets = <<>>
    /\ unavailable_count = 0
    /\ deep = <<>>

\* no history comparison in progress
IdleHist ==
    /\ successful_results = <<>>
    /\ history_file = <<>>
    /\ history = <<>>
    /\ comparison = <<>>
    /\ mirrored = <<>>
    /\ recommendation = "none"
    /\ hpc = "idle"

\* no outlier filtering in progress
IdleFilter ==
    /\ data = <<>>
    /\ filtered = <<>>
    /\ fpc = "idle"

\* no target loading in progress
IdleLoad ==
    /\ raw_targets = <<>>
    /\ unique_targets = <<>>
    /\ parsed = <<>>
    /\ lpc = "idle"

\* no stability score of a coefficient of variation in progress
IdleStab ==
    /\ cv_in = 0
    /\ cv_score = NoneVal
    /\ cvpc = "idle"

\* no aggregation of rounds in progress
IdleAgg ==
    /\ rounds_data = <<>>
    /\ filtered_values = <<>>
    /\ aggregated = <<>>
    /\ apc = "idle"

\* no best list being written
IdleBest ==
    /\ best_results = <<>>
    /\ top_n = 0
    /\ best_file = <<>>
    /\ bpc = "idle"

\* the analysis helpers and the best list at rest
IdleOther ==
    /\ IdleStab
    /\ IdleAgg
    /\ IdleBest

\* ---------------------------------------------------------------- bounds
MaxResults == 3
\* number of input targets of a two-phase run
NumTargets == 2
\* self.quick_check_workers and self.max_workers of the modelled run
QuickWorkers == 1
MaxWorkers == 2

\* ------------------------------------------------------------ list sort
\* Python tuple comparison a < b
RECURSIVE TupleLess(_, _)
TupleLess(a, b) ==
    IF a = <<>> THEN b # <<>>
    ELSE IF b = <<>> THEN FALSE
    ELSE IF Head(a) < Head(b) THEN TRUE
    ELSE IF Head(a) > Head(b) THEN FALSE
    ELSE TupleLess(Tail(a), Tail(b))

\* a sort that puts an element before the elements of equal key
RECURSIVE InsertByKeyUnstable(_, _)
InsertByKeyUnstable(x, s) ==
    IF s = <<>> THEN <<x>>
    ELSE IF ~TupleLess(s[Len(s)].key, x.key)
         THEN Append(InsertByKeyUnstable(x, SubSeq(s, 1, Len(s) - 1)), s[Len(s)])
         ELSE Append(s, x)

\* list.sort / sorted are stable: x goes after every element whose key is
\* not greater than its own
RECURSIVE InsertByKey(_, _)
InsertByKey(x, s) ==
    IF s = <<>> THEN <<x>>
    ELSE IF TupleLess(x.key, s[Len(s)].key)
         THEN Append(InsertByKey(x, SubSeq(s, 1, Len(s) - 1)), s[Len(s)])
         ELSE Append(s, x)

RECURSIVE SortPairs(_)
SortPairs(s) ==
    IF s = <<>> THEN <<>>
    ELSE InsertByKey(s[Len(s)], SortPairs(SubSeq(s, 1, Len(s) - 1)))

Items(p) == [i \in 1..Len(p) |-> p[i].item]

\* ------------------------------------------------- sort_results_by_quality
\* loss_rate = result.get('ping', {}).get('loss_rate', 100); None -> 100
QualityLoss(r) ==
    IF r.ping.loss_rate \in {NoneVal, Absent} THEN 100 ELSE r.ping.loss_rate

\* the acceptable test placed before the good test
TierOfMisordered(r) ==
    LET loss_rate == QualityLoss(r)
    IN  IF loss_rate = 0 THEN 1
        ELSE IF loss_rate < 10 THEN 3
        ELSE IF loss_rate < 5 THEN 2
        ELSE 4

\* 1 = perfect, 2 = good, 3 = acceptable, 4 = poor
TierOf(r) ==
    LET loss_rate == QualityLoss(r)
    IN  IF loss_rate = 0 THEN 1
        ELSE IF loss_rate < 5 THEN 2
        ELSE IF loss_rate < 10 THEN 3
        ELSE 4

get_delay_sort_key(r) ==
    <<IF r.ping.avg_delay \in {NoneVal, Absent} THEN 1000 ELSE r.ping.avg_delay>>

\* the final key without the speed component
get_quality_sort_key_delay_only(r) ==
    <<IF r.ping.avg_delay \in {NoneVal, Absent} THEN 1000 ELSE r.ping.avg_delay>>

get_quality_sort_key(r) ==
    LET delay == IF r.ping.avg_delay \in {NoneVal, Absent} THEN 1000
                 ELSE r.ping.avg_delay
        speed == IF r.download.success
                 THEN (IF r.download.speed_mbps \in {NoneVal, Absent} THEN 0
                       ELSE r.download.speed_mbps)
                 ELSE 0
    IN  <<delay, 0 - speed>>

IsSuccess(r) == r.success
IsFailed(r) == ~r.success

SortTier(rs, t) ==
    LET InTier(r) == TierOf(r) = t
        tier == SelectSeq(SelectSeq(rs, IsSuccess), InTier)
        byDelay == Items(SortPairs(
            [i \in 1..Len(tier) |-> [item |-> tier[i], key |-> get_delay_sort_key(tier[i])]]))
    IN  Items(SortPairs(
            [i \in 1..Len(byDelay) |->
                [item |-> byDelay[i], key |-> get_quality_sort_key(byDelay[i])]]))

sort_results_by_quality(rs) ==
    SortTier(rs, 1) \o SortTier(rs, 2) \o SortTier(rs, 3) \o SortTier(rs, 4)
        \o SelectSeq(rs, IsFailed)

\* ------------------------------------------------------------ sort_results
\* x or d
OrDefault(x, d) == IF x \in {NoneVal, Absent, 0} THEN d ELSE x

ScoreGet(scores, key) ==
    IF scores.empty THEN 0
    ELSE CASE key = "overall" -> scores.overall
           [] key = "streaming" -> scores.streaming
           [] key = "gaming" -> scores.gaming
           [] key = "rtc" -> scores.rtc

get_sort_key(r, by) ==
    IF ~r.success THEN <<Inf, Inf, Inf>>
    ELSE IF by \in {"overall", "streaming", "gaming", "rtc"}
         THEN <<0 - ScoreGet(r.scores, by),
                OrDefault(r.ping.loss_rate, 100),
                OrDefault(r.ping.avg_delay, 1000)>>
    ELSE IF by = "delay"
         THEN <<OrDefault(r.ping.avg_delay, 1000), OrDefault(r.ping.loss_rate, 100)>>
    ELSE IF by = "loss"
         THEN <<OrDefault(r.ping.loss_rate, 100), OrDefault(r.ping.avg_delay, 1000)>>
    ELSE <<Inf, Inf, Inf>>

sort_results(rs, by) ==
    IF by = "quality" THEN sort_results_by_quality(rs)
    ELSE Items(SortPairs(
            [i \in 1..Len(rs) |-> [item |-> rs[i], key |-> get_sort_key(rs[i], by)]]))

\* the values of sort_by the docstring of sort_results lists
SortModes == {"quality", "overall", "streaming", "gaming", "rtc", "delay", "loss"}

\* ------------------------------------------------- ProxyScoreCalculator
\* scores of a result entry whose 'scores' dict is {}
EmptyScores ==
    [empty |-> TRUE, overall |-> 0, availability |-> 0, speed |-> 0,
     stability |-> 0, responsiveness |-> 0, streaming |-> 0, gaming |-> 0, rtc |-> 0]

IsNone(x) == x \in {NoneVal, Absent}

\* the stability share added without the division by 10
AvailabilityUnscaled(ping_result, tcp_result, stability_result) ==
    (IF ping_result.success THEN 10 ELSE 0)
    + (IF tcp_result.success THEN 5 ELSE 0)
    + (IF stability_result.empty THEN 0 ELSE stability_result.success_rate)

_calculate_availability_score(ping_result, tcp_result, stability_result) ==
    LET success_rate == IF stability_result.success_rate = Absent THEN 0
                        ELSE stability_result.success_rate
    IN  (IF ping_result.success THEN 10 ELSE 0)
        + (IF tcp_result.success THEN 5 ELSE 0)
        + (IF stability_result.empty THEN 0
           ELSE IF success_rate >= 90 THEN 5
           ELSE IF success_rate >= 80 THEN 4
           ELSE IF success_rate >= 70 THEN 3
           ELSE success_rate \div 20)

_calculate_speed_score(ping_result, download_result) ==
    LET delay == ping_result.avg_delay
        speed_mBps == IF download_result.speed_mBps = Absent THEN 0
                      ELSE download_result.speed_mBps
    IN  (IF IsNone(delay) THEN 0
         ELSE IF delay < 50 THEN 15
         ELSE IF delay < 100 THEN 12
         ELSE IF delay < 150 THEN 9
         ELSE IF delay < 200 THEN 6
         ELSE IF delay < 300 THEN 3
         ELSE 1)
        + (IF ~download_result.empty /\ download_result.success
           THEN (IF speed_mBps >= 5 THEN 15
                 ELSE IF speed_mBps >= 2 THEN 10
                 ELSE IF speed_mBps >= 1 THEN 6
                 ELSE IF 2 * speed_mBps >= 1 THEN 3
                 ELSE 1)
           ELSE (IF IsNone(delay) THEN 0
                 ELSE IF delay < 50 THEN 15
                 ELSE IF delay < 100 THEN 12
                 ELSE IF delay < 150 THEN 9
                 ELSE IF delay < 200 THEN 6
                 ELSE 3))

_calculate_stability_score(ping_result, stability_result) ==
    LET loss_rate == ping_result.loss_rate
        jitter == ping_result.jitter
        stability_score == IF stability_result.stability_score = Absent THEN 0
                           ELSE stability_result.stability_score
    IN  (IF IsNone(loss_rate) THEN 0
         ELSE IF loss_rate = 0 THEN 10
         ELSE IF loss_rate < 1 THEN 8
         ELSE IF loss_rate < 3 THEN 6
         ELSE IF loss_rate < 5 THEN 4
         ELSE IF loss_rate < 10 THEN 2
         ELSE 0)
        + (IF IsNone(jitter) THEN 0
           ELSE IF jitter < 5 THEN 10
           ELSE IF jitter < 10 THEN 8
           ELSE IF jitter < 20 THEN 6
           ELSE IF jitter < 30 THEN 4
           ELSE IF jitter < 50 THEN 2
           ELSE 0)
        + (IF stability_result.empty THEN 0 ELSE stability_score \div 10)

_calculate_responsiveness_score(tcp_result, http_result) ==
    (IF ~http_result.empty /\ http_result.success /\ ~IsNone(http_result.ttfb)
     THEN (IF http_result.ttfb < 100 THEN 10
           ELSE IF http_result.ttfb < 200 THEN 8
           ELSE IF http_result.ttfb < 300 THEN 6
           ELSE IF http_result.ttfb < 500 THEN 4
           ELSE IF http_result.ttfb < 1000 THEN 2
           ELSE 0)
     ELSE 0)
    + (IF ~tcp_result.empty /\ tcp_result.success /\ ~IsNone(tcp_result.connect_time)
       THEN (IF tcp_result.connect_time < 50 THEN 10
             ELSE IF tcp_result.connect_time < 100 THEN 8
             ELSE IF tcp_result.connect_time < 200 THEN 6
             ELSE IF tcp_result.connect_time < 300 THEN 4
             ELSE IF tcp_result.connect_time < 500 THEN 2
             ELSE 0)
       ELSE 0)

Max(a, b) == IF a >= b THEN a ELSE b
Min(a, b) == IF a <= b THEN a ELSE b

\* ping_result.get(key, default) of the legacy scores
LegacyGet(x, default) == IF x = Absent THEN default ELSE x

\* the legacy scores compare delay, loss and jitter with numbers: a None
\* value raises TypeError
LegacyRaises(ping_result) ==
    \/ ping_result.avg_delay = NoneVal
    \/ ping_result.loss_rate = NoneVal
    \/ ping_result.jitter = NoneVal

_calculate_streaming_score(ping_result) ==
    LET delay == LegacyGet(ping_result.avg_delay, 1000)
        loss == LegacyGet(ping_result.loss_rate, 100)
        jitter == LegacyGet(ping_result.jitter, 100)
    IN  Max(0, 100
        - (IF delay > 300 THEN 50 ELSE IF delay > 200 THEN 30
           ELSE IF delay > 100 THEN 10 ELSE 0)
        - (IF loss > 5 THEN 40 ELSE IF loss > 3 THEN 20
           ELSE IF loss > 1 THEN 10 ELSE 0)
        - (IF jitter > 100 THEN 20 ELSE IF jitter > 50 THEN 10 ELSE 0))

_calculate_gaming_score(ping_result) ==
    LET delay == LegacyGet(ping_result.avg_delay, 1000)
        loss == LegacyGet(ping_result.loss_rate, 100)
        jitter == LegacyGet(ping_result.jitter, 100)
    IN  Max(0, 100
        - (IF loss > 2 THEN 40 ELSE IF loss > 1 THEN 20
           ELSE IF 2 * loss > 1 THEN 10 ELSE 0)
        - (IF delay > 150 THEN 30 ELSE IF delay > 100 THEN 20
           ELSE IF delay > 50 THEN 10 ELSE 0)
        - (IF jitter > 50 THEN 20 ELSE IF jitter > 20 THEN 10 ELSE 0))

_calculate_rtc_score(ping_result) ==
    LET delay == LegacyGet(ping_result.avg_delay, 1000)
        loss == LegacyGet(ping_result.loss_rate, 100)
        jitter == LegacyGet(ping_result.jitter, 100)
    IN  Max(0, 100
        - (IF loss > 1 THEN 30 ELSE IF 2 * loss > 1 THEN 20
           ELSE IF 10 * loss > 1 THEN 10 ELSE 0)
        - (IF jitter > 30 THEN 30 ELSE IF jitter > 20 THEN 20
           ELSE IF jitter > 10 THEN 10 ELSE 0)
        - (IF delay > 200 THEN 20 ELSE IF delay > 150 THEN 15
           ELSE IF delay > 100 THEN 10 ELSE 0))

\* the outcome of a call: raised with the exception text, or the scores
calculate_proxy_score(tr) ==
    IF LegacyRaises(tr.ping)
    THEN [raised |-> TRUE,
          exc |-> "'>' not supported between instances of 'NoneType' and 'int'",
          scores |-> EmptyScores]
    ELSE LET availability == _calculate_availability_score(tr.ping, tr.tcp, tr.stability)
             speed == _calculate_speed_score(tr.ping, tr.download)
             stability == _calculate_stability_score(tr.ping, tr.stability)
             responsiveness == _calculate_responsiveness_score(tr.tcp, tr.http)
         IN  [raised |-> FALSE, exc |-> "None",
              scores |-> [empty |-> FALSE,
                          overall |-> availability + speed + stability + responsiveness,
                          availability |-> availability,
                          speed |-> speed,
                          stability |-> stability,
                          responsiveness |-> responsiveness,
                          streaming |-> _calculate_streaming_score(tr.ping),
                          gaming |-> _calculate_gaming_score(tr.ping),
                          rtc |-> _calculate_rtc_score(tr.ping)]]

\* ------------------------------------------------- test_connection_stability
\* self.stability_attempts
stability_attempts == 10

\* the result for failed_count failed connects out of stability_attempts, the
\* connect times of the successful ones having coefficient of variation cv (%)
test_connection_stability(failed_count, cv) ==
    LET success_count == stability_attempts - failed_count
        success_rate == (success_count * 100) \div stability_attempts
        base_score == IF success_rate >= 90 THEN 90 + (success_rate - 90)
                      ELSE IF success_rate >= 80 THEN 70 + (success_rate - 80) * 2
                      ELSE IF success_rate >= 70 THEN 50 + (success_rate - 70) * 2
                      ELSE (success_rate * 7) \div 10
        cv_penalty == IF success_count > 1
                      THEN (IF cv < 10 THEN 0 ELSE IF cv < 20 THEN 5
                            ELSE IF cv < 30 THEN 10 ELSE 15)
                      ELSE 0
    IN  [empty |-> FALSE,
         success_rate |-> success_rate,
         stability_score |-> Max(0, Min(100, base_score - cv_penalty))]

\* ------------------------------------------------- quick_availability_check
max_attempts == 2

\* what one ping subprocess can do: TimeoutExpired, another exception, a return
\* code outside {0, 1}, no delay sample in the output, or delay samples
PingOutcomes == {"timeout", "exception", "badrc", "noreply", "delays"}

\* what one TCP connect can do
TcpOutcomes == {"ok", "timeout", "refused", "error"}

\* mean of the delay samples of a reduced ping that was answered
QuickDelays == {0, 20}

QuickResult0 == [available |-> FALSE, quick_delay |-> NoneVal, reason |-> "None"]

\* the result dict after the ping of one attempt
AfterPing(result, ping, delay) ==
    CASE ping = "timeout" -> [result EXCEPT !.reason = "ping timeout"]
      [] ping = "exception" -> [result EXCEPT !.reason = "check exception"]
      [] ping = "badrc" -> [result EXCEPT !.reason = "ping failed"]
      [] ping = "noreply" -> [result EXCEPT !.reason = "ping no reply"]
      [] ping = "delays" -> [result EXCEPT !.quick_delay = delay]

\* a connect that reports available whatever the socket did
AfterTcpAlwaysAvailable(result, tcp) == [result EXCEPT !.available = TRUE]

\* the result dict after the TCP connect of one attempt
AfterTcp(result, tcp) ==
    CASE tcp = "ok" -> [result EXCEPT !.available = TRUE]
      [] tcp = "timeout" -> [result EXCEPT !.reason = "tcp timeout"]
      [] tcp = "refused" -> [result EXCEPT !.reason = "tcp refused"]
      [] tcp = "error" -> [result EXCEPT !.reason = "tcp failed"]

\* a retry test that lets the loop run one more time
RetryAllowedOffByOne(result, attempt) ==
    ~result.available /\ attempt < max_attempts

\* if not result['available'] and attempt < max_attempts - 1
RetryAllowed(result, attempt) ==
    ~result.available /\ attempt < max_attempts - 1

InitQuick ==
    /\ q_pc = "ping"
    /\ q_attempt = 0
    /\ q_result = QuickResult0
    /\ probes = <<>>
    /\ IdleRank
    /\ IdleScore
    /\ IdleSched
    /\ IdleHist
    /\ IdleFilter
    /\ IdleLoad
    /\ IdleOther

\* subprocess.run(['ping', ...]) and the parsing of its output
QuickPing ==
    /\ q_pc = "ping"
    /\ \E ping \in PingOutcomes, delay \in QuickDelays :
        /\ q_result' = AfterPing(q_result, ping, delay)
        /\ probes' = Append(probes, [kind |-> "ping", attempt |-> q_attempt, outcome |-> ping])
        /\ q_pc' = IF ping = "delays" THEN "tcp" ELSE "after"
    /\ UNCHANGED q_attempt
    /\ UNCHANGED <<rankVars, scoreVars, schedVars, histVars, filterVars, loadVars, otherVars>>

\* sock.connect((clean_target, port)); a success returns at once
QuickTcp ==
    /\ q_pc = "tcp"
    /\ \E tcp \in TcpOutcomes :
        /\ q_result' = AfterTcp(q_result, tcp)
        /\ probes' = Append(probes, [kind |-> "tcp", attempt |-> q_attempt, outcome |-> tcp])
        /\ q_pc' = IF AfterTcp(q_result, tcp).available THEN "returned" ELSE "after"
    /\ UNCHANGED q_attempt
    /\ UNCHANGED <<rankVars, scoreVars, schedVars, histVars, filterVars, loadVars, otherVars>>

\* time.sleep(0.5); continue
QuickSleepRetry ==
    /\ q_pc = "after"
    /\ RetryAllowed(q_result, q_attempt)
    /\ probes' = Append(probes, [kind |-> "sleep", attempt |-> q_attempt, outcome |-> "slept"])
    /\ q_attempt' = q_attempt + 1
    /\ q_pc' = "ping"
    /\ UNCHANGED q_result
    /\ UNCHANGED <<rankVars, scoreVars, schedVars, histVars, filterVars, loadVars, otherVars>>

\* break; return result
QuickGiveUp ==
    /\ q_pc = "after"
    /\ ~RetryAllowed(q_result, q_attempt)
    /\ q_pc' = "returned"
    /\ UNCHANGED <<q_attempt, q_result, probes>>
    /\ UNCHANGED <<rankVars, scoreVars, schedVars, histVars, filterVars, loadVars, otherVars>>

NextQuick == QuickPing \/ QuickTcp \/ QuickSleepRetry \/ QuickGiveUp

SpecQuick == InitQuick /\ [][NextQuick]_vars

\* the steps of the check are straight-line code of one thread between blocking
\* calls that all carry a timeout
FairQuick == SpecQuick /\ WF_vars(NextQuick)

\* ----------------------------------------------------- ranking of a result set
OnlyOverall(n) == [EmptyScores EXCEPT !.empty = FALSE, !.overall = n]

\* the download result when no download test ran or it failed
NoDownload == [success |-> FALSE, speed_mbps |-> 0, speed_mBps |-> Absent]

\* result entries handed to the ranking: successful ones over the four loss
\* tiers, a low and a high delay, with and without a measured download speed,
\* with a None loss rate or a None delay, and a failed one
RankProfiles ==
    {[success |-> TRUE, error |-> "None",
      ping |-> [avg_delay |-> d, loss_rate |-> l],
      download |-> NoDownload,
      scores |-> OnlyOverall(IF d = 11 THEN 90 ELSE 40)]
        : d \in {11, 510}, l \in {0, 3, 7, 20}}
    \cup
    {[success |-> TRUE, error |-> "None",
      ping |-> [avg_delay |-> 11, loss_rate |-> l],
      download |-> [success |-> TRUE, speed_mbps |-> 5, speed_mBps |-> Absent],
      scores |-> OnlyOverall(90)] : l \in {0, 20}}
    \cup
    {[success |-> TRUE, error |-> "None",
      ping |-> [avg_delay |-> 11, loss_rate |-> NoneVal],
      download |-> NoDownload, scores |-> OnlyOverall(60)],
     [success |-> TRUE, error |-> "None",
      ping |-> [avg_delay |-> NoneVal, loss_rate |-> 0],
      download |-> NoDownload, scores |-> OnlyOverall(60)],
     [success |-> FALSE, error |-> "ping test failed",
      ping |-> [avg_delay |-> Absent, loss_rate |-> Absent],
      download |-> NoDownload, scores |-> EmptyScores]}

\* entry i of the input is the result of target i
WithOriginal(p, i) ==
    [original |-> i, success |-> p.success, error |-> p.error, ping |-> p.ping,
     download |-> p.download, scores |-> p.scores]

\* the result lists of n entries
RankInputs(n) == {[i \in 1..n |-> WithOriginal(f[i], i)] : f \in [1..n -> RankProfiles]}

InitRank ==
    /\ \E n \in 0..MaxResults : results \in RankInputs(n)
    /\ sort_by = "none"
    /\ ranked = <<>>
    /\ reranked = <<>>
    /\ rpc = "input"
    /\ IdleScore
    /\ IdleQuick
    /\ IdleSched
    /\ IdleHist
    /\ IdleFilter
    /\ IdleLoad
    /\ IdleOther

\* sorted_results = self.sort_results(by)
Rank(by) ==
    /\ rpc = "input"
    /\ ranked' = sort_results(results, by)
    /\ sort_by' = by
    /\ rpc' = "ranked"
    /\ UNCHANGED <<results, reranked>>
    /\ UNCHANGED <<scoreVars, quickVars, schedVars, histVars, filterVars, loadVars, otherVars>>

\* the ranking applied to its own output
Rerank ==
    /\ rpc = "ranked"
    /\ reranked' = sort_results(ranked, sort_by)
    /\ rpc' = "reranked"
    /\ UNCHANGED <<results, sort_by, ranked>>
    /\ UNCHANGED <<scoreVars, quickVars, schedVars, histVars, filterVars, loadVars, otherVars>>

NextRank == (\E by \in SortModes : Rank(by)) \/ Rerank

SpecRank == InitRank /\ [][NextRank]_vars

\* ------------------------------------------------- scoring of one test result
PingInputs ==
    [success : BOOLEAN,
     avg_delay : {Absent, NoneVal, 10, 120, 400},
     loss_rate : {Absent, NoneVal, 0, 2, 7, 20},
     jitter : {Absent, NoneVal, 3, 120}]

TcpInputs ==
    {[empty |-> TRUE, success |-> FALSE, connect_time |-> Absent],
     [empty |-> FALSE, success |-> FALSE, connect_time |-> NoneVal],
     [empty |-> FALSE, success |-> TRUE, connect_time |-> 40],
     [empty |-> FALSE, success |-> TRUE, connect_time |-> 600]}

HttpInputs ==
    {[empty |-> TRUE, success |-> FALSE, ttfb |-> Absent],
     [empty |-> FALSE, success |-> FALSE, ttfb |-> NoneVal],
     [empty |-> FALSE, success |-> TRUE, ttfb |-> 80],
     [empty |-> FALSE, success |-> TRUE, ttfb |-> 1500]}

StabilityInputs ==
    {[empty |-> TRUE, success_rate |-> Absent, stability_score |-> Absent]}
    \cup {test_connection_stability(f, cv) : f \in {0, 2, 3, 6, 10}, cv \in {5, 35}}

DownloadInputs ==
    {[empty |-> TRUE, success |-> FALSE, speed_mbps |-> Absent, speed_mBps |-> Absent],
     [empty |-> FALSE, success |-> FALSE, speed_mbps |-> 0, speed_mBps |-> Absent],
     [empty |-> FALSE, success |-> TRUE, speed_mbps |-> 64, speed_mBps |-> Absent],
     [empty |-> FALSE, success |-> TRUE, speed_mbps |-> Absent, speed_mBps |-> 8],
     [empty |-> FALSE, success |-> TRUE, speed_mbps |-> Absent, speed_mBps |-> 0]}

\* the test_results dicts whose ping result is drawn from pings
ScoreInputs(pings) ==
    [ping : pings, tcp : TcpInputs, http : HttpInputs,
     stability : StabilityInputs, download : DownloadInputs]

InitScore ==
    /\ test_results \in ScoreInputs(PingInputs)
    /\ score_out = <<>>
    /\ spc = "input"
    /\ IdleRank
    /\ IdleQuick
    /\ IdleSched
    /\ IdleHist
    /\ IdleFilter
    /\ IdleLoad
    /\ IdleOther

\* scores = ProxyScoreCalculator.calculate_proxy_score(test_results)
Score ==
    /\ spc = "input"
    /\ score_out' = calculate_proxy_score(test_results)
    /\ spc' = "scored"
    /\ UNCHANGED test_results
    /\ UNCHANGED <<rankVars, quickVars, schedVars, histVars, filterVars, loadVars, otherVars>>

NextScore == Score

SpecScore == InitScore /\ [][NextScore]_vars

\* ------------------------------------------------------------ test_target
FailedPing == [success |-> FALSE, avg_delay |-> Absent, loss_rate |-> Absent, jitter |-> Absent]
EmptyTcp == [empty |-> TRUE, success |-> FALSE, connect_time |-> Absent]
EmptyHttp == [empty |-> TRUE, success |-> FALSE, ttfb |-> Absent]
EmptyStability == [empty |-> TRUE, success_rate |-> Absent, stability_score |-> Absent]
EmptyDownload == [empty |-> TRUE, success |-> FALSE, speed_mbps |-> Absent, speed_mBps |-> Absent]

\* self.score_include_http
score_include_http == TRUE

\* the result dict test_target starts from
Result0(target) ==
    [original |-> target, success |-> FALSE, error |-> "None",
     ping |-> FailedPing, download |-> EmptyDownload, scores |-> EmptyScores]

\* the f-strings of the result display format avg_delay, loss_rate and jitter
\* with :.1f, and ttfb of a successful http result: None raises TypeError
DisplayRaises(env) ==
    \/ env.ping.avg_delay \in {NoneVal, Absent}
    \/ env.ping.loss_rate \in {NoneVal, Absent}
    \/ env.ping.jitter = NoneVal
    \/ (env.http.success /\ env.http.ttfb \in {NoneVal, Absent})

\* str(e) of an exception with no message
ExcTextEmpty(text) == ""

\* result['error'] = str(e)
ExcText(text) == text

\* self.config['enable_multi_round'] and self.config['test_rounds']
enable_multi_round == TRUE
test_rounds == 3

\* what the probes of one target returned (env) to the returned result dict;
\* path names the return taken and rounds counts the runs of the probe steps:
\* _run_ping_test and the steps after it are called once, and neither
\* enable_multi_round nor test_rounds is read
test_target(target, env) ==
    IF ~env.ping.success
    THEN [path |-> "ping_failed", rounds |-> 1,
          result |-> [Result0(target) EXCEPT !.ping = env.ping,
                                              !.error = "ping test failed"]]
    ELSE IF env.probe_exc # "None"
    THEN [path |-> "probe_exception", rounds |-> 1,
          result |-> [Result0(target) EXCEPT !.ping = env.ping,
                                              !.error = ExcText(env.probe_exc)]]
    ELSE LET scoring_input ==
                 [ping |-> env.ping, tcp |-> env.tcp,
                  http |-> IF score_include_http THEN env.http ELSE EmptyHttp,
                  stability |-> env.stability, download |-> env.download]
             out == calculate_proxy_score(scoring_input)
             probed == [Result0(target) EXCEPT !.ping = env.ping,
                                               !.download = env.download]
         IN  IF out.raised
             THEN [path |-> "scoring_exception", rounds |-> 1,
                   result |-> [probed EXCEPT !.error = ExcText(out.exc)]]
             ELSE IF DisplayRaises(env)
             THEN [path |-> "display_exception", rounds |-> 1,
                   result |-> [probed EXCEPT !.scores = out.scores, !.success = TRUE,
                       !.error = ExcText("unsupported format string passed to NoneType.__format__")]]
             ELSE [path |-> "scored", rounds |-> 1,
                   result |-> [probed EXCEPT !.scores = out.scores, !.success = TRUE]]

GoodProbe ==
    [ping |-> [success |-> TRUE, avg_delay |-> 11, loss_rate |-> 0, jitter |-> 2],
     tcp |-> [empty |-> FALSE, success |-> TRUE, connect_time |-> 40],
     http |-> [empty |-> FALSE, success |-> TRUE, ttfb |-> 80],
     stability |-> test_connection_stability(0, 5),
     download |-> EmptyDownload,
     probe_exc |-> "None"]

\* the probe outcomes of a deep probe: no ping reply; a good target; a lossy
\* slow target; ping replies without a loss statistic; the download test
\* raising AttributeError (self.logger does not exist)
DeepEnvs ==
    {[GoodProbe EXCEPT !.ping = FailedPing],
     GoodProbe,
     [GoodProbe EXCEPT
        !.ping = [success |-> TRUE, avg_delay |-> 510, loss_rate |-> 20, jitter |-> 60],
        !.tcp = [empty |-> FALSE, success |-> FALSE, connect_time |-> NoneVal],
        !.http = [empty |-> FALSE, success |-> FALSE, ttfb |-> NoneVal],
        !.stability = test_connection_stability(6, 35)],
     [GoodProbe EXCEPT !.ping.loss_rate = NoneVal],
     [GoodProbe EXCEPT !.probe_exc = "'AdvancedIPTester' object has no attribute 'logger'"]}

\* ------------------------------------------- quick check run by a worker
\* what the ping and the connect of one attempt do
AttemptEnvs ==
    {[ping |-> "timeout", delay |-> 0, tcp |-> "ok"],
     [ping |-> "noreply", delay |-> 0, tcp |-> "ok"],
     [ping |-> "delays", delay |-> 20, tcp |-> "ok"],
     [ping |-> "delays", delay |-> 20, tcp |-> "refused"]}

\* the retry loop from attempt on, env[a + 1] being what attempt a meets
RECURSIVE QuickLoop(_, _, _)
QuickLoop(result, attempt, env) ==
    LET e == env[attempt + 1]
        pinged == AfterPing(result, e.ping, e.delay)
        done == IF e.ping = "delays" THEN AfterTcp(pinged, e.tcp) ELSE pinged
    IN  IF done.available THEN done
        ELSE IF RetryAllowed(done, attempt) THEN QuickLoop(done, attempt + 1, env)
        ELSE done

quick_availability_check(env) == QuickLoop(QuickResult0, 0, env)

\* ------------------------------------------------- test_targets_two_phase
Targets == 1..NumTargets

NoFuture == [st |-> "none", raised |-> FALSE, exc |-> "None", ret |-> <<>>]

\* a pool that never counts a thread as busy
RunningNone(futures) == {}

\* the futures a pool thread is working on
Running(futures) == {t \in Targets : futures[t].st = "running"}

\* the targets handed to every batch instead of the ones given
SubmitAll(targets) == [t \in Targets |-> [NoFuture EXCEPT !.st = "queued"]]

\* executor.submit for every element of targets
Submit(targets) ==
    [t \in Targets |->
        IF \E i \in 1..Len(targets) : targets[i] = t
        THEN [NoFuture EXCEPT !.st = "queued"] ELSE NoFuture]

AllTargets == [i \in 1..NumTargets |-> i]

InitSched ==
    /\ enable_quick_check \in BOOLEAN
    /\ phase = "start"
    /\ quick = [t \in Targets |-> NoFuture]
    /\ verdict = [t \in Targets |-> "pending"]
    /\ available_targets = <<>>
    /\ unavailable_count = 0
    /\ deep = [t \in Targets |-> NoFuture]
    /\ IdleRank
    /\ IdleScore
    /\ IdleQuick
    /\ IdleHist
    /\ IdleFilter
    /\ IdleLoad
    /\ IdleOther

\* enable_quick_check: submit a quick check for every target
StartPhase1 ==
    /\ phase = "start"
    /\ enable_quick_check
    /\ quick' = Submit(AllTargets)
    /\ phase' = "phase1"
    /\ UNCHANGED <<enable_quick_check, verdict, available_targets, unavailable_count, deep>>
    /\ UNCHANGED <<rankVars, scoreVars, quickVars, histVars, filterVars, loadVars, otherVars>>

\* not enable_quick_check: return self.test_targets(targets)
StartDirect ==
    /\ phase = "start"
    /\ ~enable_quick_check
    /\ results' = <<>>
    /\ deep' = Submit(AllTargets)
    /\ phase' = "phase2"
    /\ UNCHANGED <<enable_quick_check, quick, verdict, available_targets, unavailable_count>>
    /\ UNCHANGED <<sort_by, ranked, reranked, rpc>>
    /\ UNCHANGED <<scoreVars, quickVars, histVars, filterVars, loadVars, otherVars>>

\* a pool thread of phase 1 takes a queued quick check
QuickStart(t) ==
    /\ phase = "phase1"
    /\ quick[t].st = "queued"
    /\ Cardinality(Running(quick)) < QuickWorkers
    /\ quick' = [quick EXCEPT ![t].st = "running"]
    /\ UNCHANGED <<enable_quick_check, phase, verdict, available_targets,
                   unavailable_count, deep>>
    /\ UNCHANGED <<rankVars, scoreVars, quickVars, histVars, filterVars, loadVars, otherVars>>

\* the quick check of t returns its result dict
QuickReturn(t) ==
    /\ quick[t].st = "running"
    /\ \E env \in [1..max_attempts -> AttemptEnvs] :
        quick' = [quick EXCEPT ![t].st = "finished",
                               ![t].ret = quick_availability_check(env)]
    /\ UNCHANGED <<enable_quick_check, phase, verdict, available_targets,
                   unavailable_count, deep>>
    /\ UNCHANGED <<rankVars, scoreVars, quickVars, histVars, filterVars, loadVars, otherVars>>

\* the quick check of t ends with an exception
QuickRaise(t) ==
    /\ quick[t].st = "running"
    /\ quick' = [quick EXCEPT ![t].st = "finished", ![t].raised = TRUE,
                              ![t].exc = "[Errno 32] Broken pipe"]
    /\ UNCHANGED <<enable_quick_check, phase, verdict, available_targets,
                   unavailable_count, deep>>
    /\ UNCHANGED <<rankVars, scoreVars, quickVars, histVars, filterVars, loadVars, otherVars>>

\* one iteration of the as_completed loop of phase 1
QuickCollect(t) ==
    /\ phase = "phase1"
    /\ quick[t].st = "finished"
    /\ quick' = [quick EXCEPT ![t] = [NoFuture EXCEPT !.st = "collected"]]
    /\ IF quick[t].raised
       THEN /\ unavailable_count' = unavailable_count + 1
            /\ verdict' = [verdict EXCEPT ![t] = "raised"]
            /\ UNCHANGED available_targets
       ELSE IF quick[t].ret.available
       THEN /\ available_targets' = Append(available_targets, t)
            /\ verdict' = [verdict EXCEPT ![t] = "available"]
            /\ UNCHANGED unavailable_count
       ELSE /\ unavailable_count' = unavailable_count + 1
            /\ verdict' = [verdict EXCEPT ![t] = "unavailable"]
            /\ UNCHANGED available_targets
    /\ UNCHANGED <<enable_quick_check, phase, deep>>
    /\ UNCHANGED <<rankVars, scoreVars, quickVars, histVars, filterVars, loadVars, otherVars>>

\* after the phase 1 pool: no available target ends the run with no results,
\* otherwise test_targets(available_targets) resets the results and submits
EndPhase1 ==
    /\ phase = "phase1"
    /\ \A t \in Targets : quick[t].st = "collected"
    /\ results' = <<>>
    /\ IF available_targets = <<>>
       THEN /\ phase' = "done"
            /\ UNCHANGED deep
       ELSE /\ phase' = "phase2"
            /\ deep' = Submit(available_targets)
    /\ UNCHANGED <<enable_quick_check, quick, verdict, available_targets, unavailable_count>>
    /\ UNCHANGED <<sort_by, ranked, reranked, rpc>>
    /\ UNCHANGED <<scoreVars, quickVars, histVars, filterVars, loadVars, otherVars>>

\* a pool thread of phase 2 takes a queued deep probe
DeepStart(t) ==
    /\ phase = "phase2"
    /\ deep[t].st = "queued"
    /\ Cardinality(Running(deep)) < MaxWorkers
    /\ deep' = [deep EXCEPT ![t].st = "running"]
    /\ UNCHANGED <<enable_quick_check, phase, quick, verdict, available_targets,
                   unavailable_count>>
    /\ UNCHANGED <<rankVars, scoreVars, quickVars, histVars, filterVars, loadVars, otherVars>>

\* _test_target_with_progress(t) returns the result of test_target
DeepReturn(t) ==
    /\ deep[t].st = "running"
    /\ \E env \in DeepEnvs :
        deep' = [deep EXCEPT ![t].st = "finished", ![t].ret = test_target(t, env)]
    /\ UNCHANGED <<enable_quick_check, phase, quick, verdict, available_targets,
                   unavailable_count>>
    /\ UNCHANGED <<rankVars, scoreVars, quickVars, histVars, filterVars, loadVars, otherVars>>

\* _test_target_with_progress(t) ends with an exception test_target did not catch
DeepRaise(t) ==
    /\ deep[t].st = "running"
    /\ deep' = [deep EXCEPT ![t].st = "finished", ![t].raised = TRUE,
                            ![t].exc = "[Errno 32] Broken pipe"]
    /\ UNCHANGED <<enable_quick_check, phase, quick, verdict, available_targets,
                   unavailable_count>>
    /\ UNCHANGED <<rankVars, scoreVars, quickVars, histVars, filterVars, loadVars, otherVars>>

\* the entry the collector builds for a future that raised
RaisedEntry(target, exc) == [Result0(target) EXCEPT !.error = ExcText(exc)]

\* a collector that drops the targets whose future raised
CollectedDropsRaised(rs, target, future) ==
    IF future.raised THEN rs ELSE Append(rs, future.ret.result)

\* the try / except around future.result() in test_targets
Collected(rs, target, future) ==
    IF future.raised
    THEN Append(rs, RaisedEntry(target, future.exc))
    ELSE Append(rs, future.ret.result)

\* an as_completed that yields a finished future again and again
YieldedAgain(future) == future

\* as_completed yields every finished future once
Yielded(future) == [future EXCEPT !.st = "collected"]

\* one iteration of the as_completed loop of test_targets
DeepCollect(t) ==
    /\ phase = "phase2"
    /\ deep[t].st = "finished"
    /\ deep' = [deep EXCEPT ![t] = Yielded(deep[t])]
    /\ results' = Collected(results, t, deep[t])
    /\ UNCHANGED <<enable_quick_check, phase, quick, verdict, available_targets,
                   unavailable_count>>
    /\ UNCHANGED <<sort_by, ranked, reranked, rpc>>
    /\ UNCHANGED <<scoreVars, quickVars, histVars, filterVars, loadVars, otherVars>>

\* return self.results
EndPhase2 ==
    /\ phase = "phase2"
    /\ \A t \in Targets : deep[t].st \in {"none", "collected"}
    /\ phase' = "done"
    /\ UNCHANGED <<enable_quick_check, quick, verdict, available_targets,
                   unavailable_count, deep>>
    /\ UNCHANGED <<rankVars, scoreVars, quickVars, histVars, filterVars, loadVars, otherVars>>

\* a report of the finished run ranks the results: self.sort_results(by)
RankResults(by) ==
    /\ phase = "done"
    /\ rpc = "idle"
    /\ ranked' = sort_results(results, by)
    /\ sort_by' = by
    /\ rpc' = "ranked"
    /\ UNCHANGED <<results, reranked>>
    /\ UNCHANGED <<scoreVars, quickVars, schedVars, histVars, filterVars, loadVars, otherVars>>

\* the steps of test_targets_two_phase and of its pool threads
Run ==
    \/ StartPhase1
    \/ StartDirect
    \/ \E t \in Targets : QuickStart(t)
    \/ \E t \in Targets : QuickReturn(t)
    \/ \E t \in Targets : QuickRaise(t)
    \/ \E t \in Targets : QuickCollect(t)
    \/ EndPhase1
    \/ \E t \in Targets : DeepStart(t)
    \/ \E t \in Targets : DeepReturn(t)
    \/ \E t \in Targets : DeepRaise(t)
    \/ \E t \in Targets : DeepCollect(t)
    \/ EndPhase2

Next ==
    \/ Run
    \/ \E by \in SortModes : RankResults(by)

Spec == InitSched /\ [][Next]_vars

\* pool threads run the submitted tasks, every probe carries a timeout and the
\* collecting thread blocks only on unfinished futures
FairSpec == Spec /\ WF_vars(Run)

\* --------------------------------------------------------------- history
\* HISTORY_VERSION
HISTORY_VERSION == 1

\* rank_changes[:10], score_changes[:10]
ShownChanges == 10

MaxSnapshot == 2
MaxKeys == 11

\* what load_history can find at the history path: no file, a file that
\* json.load rejects, a JSON value that is not an object, or an object with
\* its version (Absent: no such key) and its results (a list, another value,
\* or no such key)
NoFile == [state |-> "missing", version |-> Absent, results_kind |-> "absent", results |-> <<>>]
BadFile == [NoFile EXCEPT !.state = "unreadable"]
NotDictFile == [NoFile EXCEPT !.state = "not_dict"]
DictFile(version, results_kind, items) ==
    [state |-> "dict", version |-> version, results_kind |-> results_kind, results |-> items]

\* Python None returned by load_history
NoneHistory == [is_none |-> TRUE, version |-> Absent, results_kind |-> "absent", results |-> <<>>]

\* a load_history that accepts every version
VersionAcceptedAlways(version) == TRUE

\* version = data.get('version', 0); version in (0, self.HISTORY_VERSION)
VersionAccepted(version) ==
    (IF version = Absent THEN 0 ELSE version) \in {0, HISTORY_VERSION}

load_history(file) ==
    IF file.state = "missing" THEN NoneHistory
    ELSE IF file.state = "unreadable" THEN NoneHistory
    ELSE IF file.state # "dict" THEN NoneHistory
    ELSE IF ~VersionAccepted(file.version) THEN NoneHistory
    ELSE IF file.results_kind = "not_list" THEN NoneHistory
    ELSE [is_none |-> FALSE, version |-> file.version,
          results_kind |-> file.results_kind, results |-> file.results]

\* `if history:` in save_results_md: None and an empty dict are false
Truthy(h) == ~h.is_none /\ ~(h.version = Absent /\ h.results_kind = "absent")

\* the entries save_history writes for the successful results, best first
SavedResults(successful) ==
    [i \in 1..Len(successful) |->
        [key |-> successful[i].key, rank |-> i, score |-> successful[i].score]]

\* the successful results a saved snapshot was written from
SuccessfulOf(items) ==
    [i \in 1..Len(items) |-> [key |-> items[i].key, score |-> items[i].score]]

MinOf(S) == CHOOSE x \in S : \A y \in S : x <= y
MaxOf(S) == CHOOSE x \in S : \A y \in S : x >= y
Abs(x) == IF x < 0 THEN -x ELSE x

\* current_map: the first, best ranked, entry of every key
CurrentMap(successful) ==
    [k \in {successful[i].key : i \in 1..Len(successful)} |->
        LET i == MinOf({j \in 1..Len(successful) : successful[j].key = k})
        IN  [rank |-> i, score |-> successful[i].score]]

\* history_map: items without a usable rank are skipped, a later item of a
\* key replaces an earlier one
HistoryMap(items) ==
    LET valid == {j \in 1..Len(items) : items[j].rank # NoneVal}
    IN  [k \in {items[j].key : j \in valid} |->
            LET i == MaxOf({j \in valid : items[j].key = k})
            IN  [rank |-> items[i].rank, score |-> items[i].score]]

NewIpsReversed(current_keys, history_keys) == history_keys \ current_keys

\* new_ips = current_keys - history_keys
NewIps(current_keys, history_keys) == current_keys \ history_keys

\* removed_ips = history_keys - current_keys
RemovedIps(current_keys, history_keys) == history_keys \ current_keys

\* common_ips = current_keys & history_keys
CommonIps(current_keys, history_keys) == current_keys \cap history_keys

\* score_diff, None unless both scores are known
ScoreDiff(current, history_item) ==
    IF current.score # NoneVal /\ history_item.score # NoneVal
    THEN [none |-> FALSE, v |-> current.score - history_item.score]
    ELSE [none |-> TRUE, v |-> 0]

ScoreChangeRecordedAbove(score_diff) == ~score_diff.none /\ Abs(score_diff.v) > 5

\* score_diff is not None and abs(score_diff) >= 5
ScoreChangeRecorded(score_diff) == ~score_diff.none /\ Abs(score_diff.v) >= 5

\* the lists a sort by descending magnitude followed by [:n] can leave; the
\* order among equal magnitudes is the iteration order of a set of strings
Shown(changes, n, Magnitude(_)) ==
    IF Cardinality(changes) <= n THEN {changes}
    ELSE {changes \ dropped : dropped \in
            {d \in SUBSET changes :
                /\ Cardinality(d) = Cardinality(changes) - n
                /\ \A x \in d, y \in changes \ d : Magnitude(x) <= Magnitude(y)}}

RankMagnitude(change) == Abs(change.rank_diff)
ScoreMagnitude(change) == Abs(change.score_diff)

\* every rank change of a common key, before the cut to the shown ones
AllRankChanges(current_map, history_map) ==
    {[target |-> k, old_rank |-> history_map[k].rank, new_rank |-> current_map[k].rank,
      rank_diff |-> history_map[k].rank - current_map[k].rank] :
        k \in {c \in CommonIps(DOMAIN current_map, DOMAIN history_map) :
                  history_map[c].rank - current_map[c].rank # 0}}

\* every score change of a common key, before the cut to the shown ones
AllScoreChanges(current_map, history_map) ==
    {[target |-> k, old_score |-> history_map[k].score, new_score |-> current_map[k].score,
      score_diff |-> ScoreDiff(current_map[k], history_map[k]).v] :
        k \in {c \in CommonIps(DOMAIN current_map, DOMAIN history_map) :
                  ScoreChangeRecorded(ScoreDiff(current_map[c], history_map[c]))}}

\* the values compare_with_history can return
compare_with_history(successful, h) ==
    LET current_map == CurrentMap(successful)
        history_map == HistoryMap(IF h.results_kind = "list" THEN h.results ELSE <<>>)
        current_keys == DOMAIN current_map
        history_keys == DOMAIN history_map
    IN  {[new_ips |-> NewIps(current_keys, history_keys),
          removed_ips |-> RemovedIps(current_keys, history_keys),
          rank_changes |-> rc,
          score_changes |-> sc] :
            rc \in Shown(AllRankChanges(current_map, history_map), ShownChanges, RankMagnitude),
            sc \in Shown(AllScoreChanges(current_map, history_map), ShownChanges, ScoreMagnitude)}

\* the number of new, removed or strongly moved nodes that asks for an update
UpdateThreshold == 3

RecommendationAtTwo(c) == IF Cardinality(c.new_ips) >= 2 THEN "update" ELSE "stable"

\* the update advice of save_results_md
Recommendation(c) ==
    LET new_count == Cardinality(c.new_ips)
        removed_count == Cardinality(c.removed_ips)
        significant_changes ==
            Cardinality({x \in c.rank_changes : Abs(x.rank_diff) >= UpdateThreshold})
    IN  IF \/ new_count >= UpdateThreshold
           \/ removed_count >= UpdateThreshold
           \/ significant_changes >= UpdateThreshold
        THEN "update"
        ELSE IF new_count > 0 \/ removed_count > 0 THEN "consider"
        ELSE "stable"

\* keys and overall scores of the entries of the small snapshots
SnapshotEntries == [key : {1, 2}, score : {NoneVal, 80, 90}]

\* every list of at most n successful entries, keys may repeat (two target
\* lines that differ only in their comment have one history key)
SmallSnapshots(n) == UNION {[1..len -> SnapshotEntries] : len \in 0..n}

\* keys first .. first + n - 1 in the order turned by r, all with one score
TurnedSnapshot(first, n, r, score) ==
    [i \in 1..n |-> [key |-> first + ((i - 1 + r) % n), score |-> score]]

\* the runs compared: current results and the history file they meet; every
\* pair of small snapshots, runs of up to keys nodes against turned and
\* shifted histories, runs with more than ShownChanges rank or score changes,
\* and the history files load_history refuses
HistInputs(n, keys) ==
    {[successful |-> cur, file |-> DictFile(HISTORY_VERSION, "list", SavedResults(old))] :
        cur \in SmallSnapshots(n), old \in SmallSnapshots(n)}
    \cup
    {[successful |-> TurnedSnapshot(1, c, 0, 80),
      file |-> DictFile(HISTORY_VERSION, "list",
                        SavedResults(TurnedSnapshot(first, h, r, 80 + delta)))] :
        c \in 0..keys, h \in 1..Min(keys, ShownChanges), first \in {1, 2, 4},
        r \in {0, 1, 3}, delta \in {0, 4, 5, -10}}
    \cup
    {[successful |-> TurnedSnapshot(1, c, 0, 80),
      file |-> DictFile(HISTORY_VERSION, "list",
                        SavedResults(TurnedSnapshot(1, c, in.r, 80 + in.delta)))] :
        c \in ShownChanges + 1..keys,
        in \in {[r |-> 1, delta |-> 0], [r |-> 0, delta |-> 5]}}
    \cup
    {[successful |-> cur, file |-> f] :
        cur \in SmallSnapshots(1),
        f \in {NoFile, BadFile, NotDictFile,
               DictFile(HISTORY_VERSION, "not_list", <<>>),
               DictFile(HISTORY_VERSION, "absent", <<>>),
               DictFile(Absent, "absent", <<>>)}
              \cup {DictFile(v, "list", SavedResults(old)) :
                        v \in {Absent, 0, 2}, old \in SmallSnapshots(1)}}

InitHist ==
    /\ \E in \in HistInputs(MaxSnapshot, MaxKeys) :
        /\ successful_results = in.successful
        /\ history_file = in.file
    /\ history = <<>>
    /\ comparison = <<>>
    /\ mirrored = <<>>
    /\ recommendation = "none"
    /\ hpc = "start"
    /\ IdleRank
    /\ IdleScore
    /\ IdleQuick
    /\ IdleSched
    /\ IdleFilter
    /\ IdleLoad
    /\ IdleOther

\* save_results_md: load the history and, if there is one, compare with it
\* and write the update advice
SaveResultsMd ==
    /\ hpc = "start"
    /\ LET h == load_history(history_file)
       IN  /\ history' = h
           /\ IF Truthy(h)
              THEN /\ comparison' \in compare_with_history(successful_results, h)
                   /\ recommendation' = Recommendation(comparison')
                   /\ hpc' = "compared"
              ELSE /\ comparison' = <<>>
                   /\ recommendation' = "none"
                   /\ hpc' = "skipped"
    /\ UNCHANGED <<successful_results, history_file, mirrored>>
    /\ UNCHANGED <<rankVars, scoreVars, quickVars, schedVars, filterVars, loadVars, otherVars>>

\* compare_with_history again with the two runs exchanged: the run the
\* history was saved from is current, the current run is the saved history
Exchange ==
    /\ hpc = "compared"
    /\ mirrored' \in compare_with_history(
            SuccessfulOf(history.results),
            [history EXCEPT !.results_kind = "list",
                            !.results = SavedResults(successful_results)])
    /\ hpc' = "mirrored"
    /\ UNCHANGED <<successful_results, history_file, history, comparison, recommendation>>
    /\ UNCHANGED <<rankVars, scoreVars, quickVars, schedVars, filterVars, loadVars, otherVars>>

NextHist == SaveResultsMd \/ Exchange

SpecHist == InitHist /\ [][NextHist]_vars

\* ------------------------------------------------------ filter_outliers
MaxData == 5

\* the shortest list the filters are applied to
MinFiltered == 3

\* sorted(data)
RECURSIVE InsertSorted(_, _)
InsertSorted(sorted, x) ==
    IF sorted = <<>> THEN <<x>>
    ELSE IF x < Head(sorted) THEN <<x>> \o sorted
    ELSE <<Head(sorted)>> \o InsertSorted(Tail(sorted), x)

RECURSIVE Sorted(_)
Sorted(values) ==
    IF values = <<>> THEN <<>>
    ELSE InsertSorted(Sorted(SubSeq(values, 1, Len(values) - 1)), values[Len(values)])

Q3IndexMedian(n) == n \div 2

\* q1_index = n // 4, q3_index = 3 * n // 4, indices from 0
Q1Index(n) == n \div 4
Q3Index(n) == (3 * n) \div 4

\* bounds q1 - 1.5 * iqr and q3 + 1.5 * iqr, compared after doubling
_filter_outliers_iqr(values) ==
    LET sorted_data == Sorted(values)
        n == Len(sorted_data)
        q1 == sorted_data[Q1Index(n) + 1]
        q3 == sorted_data[Q3Index(n) + 1]
        iqr == q3 - q1
        Within(x) == 2 * q1 - 3 * iqr <= 2 * x /\ 2 * x <= 2 * q3 + 3 * iqr
        kept == SelectSeq(values, Within)
    IN  IF kept # <<>> THEN kept ELSE values

\* filter_outliers(data, 'iqr')
filter_outliers(values) ==
    IF values = <<>> \/ Len(values) < MinFiltered THEN values
    ELSE _filter_outliers_iqr(values)

\* the delay samples of the scenario
ScenarioData == <<100, 102, 98, 105, 103, 99, 101, 104, 200, 97, 102, 100>>

\* every list of at most n samples, and the scenario
FilterInputs(n) ==
    UNION {[1..len -> {0, 100, 104, 200}] : len \in 0..n} \cup {ScenarioData}

InitFilter ==
    /\ data \in FilterInputs(MaxData)
    /\ filtered = <<>>
    /\ fpc = "start"
    /\ IdleRank
    /\ IdleScore
    /\ IdleQuick
    /\ IdleSched
    /\ IdleHist
    /\ IdleLoad
    /\ IdleOther

FilterOutliers ==
    /\ fpc = "start"
    /\ filtered' = filter_outliers(data)
    /\ fpc' = "done"
    /\ UNCHANGED data
    /\ UNCHANGED <<rankVars, scoreVars, quickVars, schedVars, histVars, loadVars, otherVars>>

NextFilter == FilterOutliers

SpecFilter == InitFilter /\ [][NextFilter]_vars

\* ------------------------------------------- aggregate_multi_round_data
\* largest number of rounds of the model
MaxRounds == 6

\* the metric's entry in one round: the key is missing, its value is None, or
\* it is a measured number
RoundEntries == {Absent, NoneVal, 0, 100, 104, 200}

IsPresent(x) == x # Absent
IsValue(x) == x # Absent /\ x # NoneVal

\* an extraction that only asks whether the key is there
MetricValuesWithNone(rounds) == SelectSeq(rounds, IsPresent)

\* the values loop: metric in round_data and round_data[metric] is not None
MetricValues(rounds) == SelectSeq(rounds, IsValue)

RECURSIVE Sum(_)
Sum(values) == IF values = <<>> THEN 0 ELSE Head(values) + Sum(Tail(values))

\* the returned dict; the mean is kept as the pair of a sum and a count
aggregate_multi_round_data(rounds) ==
    LET values == MetricValues(rounds)
        kept == filter_outliers(values)
    IN  IF values = <<>>
        THEN [value |-> [none |-> TRUE, sum |-> 0, count |-> 0],
              filtered_count |-> 0, original_count |-> 0]
        ELSE [value |-> [none |-> FALSE, sum |-> Sum(kept), count |-> Len(kept)],
              filtered_count |-> Len(kept), original_count |-> Len(values)]

InitAgg ==
    /\ rounds_data \in UNION {[1..n -> RoundEntries] : n \in 0..MaxRounds}
    /\ filtered_values = <<>>
    /\ aggregated = <<>>
    /\ apc = "start"
    /\ IdleRank
    /\ IdleScore
    /\ IdleQuick
    /\ IdleSched
    /\ IdleHist
    /\ IdleFilter
    /\ IdleLoad
    /\ IdleStab
    /\ IdleBest

\* StatisticalAnalyzer.aggregate_multi_round_data(rounds_data, metric)
Aggregate ==
    /\ apc = "start"
    /\ filtered_values' = filter_outliers(MetricValues(rounds_data))
    /\ aggregated' = aggregate_multi_round_data(rounds_data)
    /\ apc' = "returned"
    /\ UNCHANGED rounds_data
    /\ UNCHANGED <<rankVars, scoreVars, quickVars, schedVars, histVars, filterVars, loadVars,
                   stabVars, bestVars>>

NextAgg == Aggregate

SpecAgg == InitAgg /\ [][NextAgg]_vars


\* ------------------------------------------------- target lines and ports
\* A target line is a sequence of characters: "a" a letter, "d" a digit,
\* ":" and "#" themselves, " " a blank.
Chars == {"a", "d", ":", "#", " "}

MaxTargets == 2
MaxShortLine == 3
MaxLine == 5

\* test_port = 443, and no port written by save_best_results
DefaultPort == <<"4", "4", "3">>
NoPort == <<>>

\* str.strip()
RECURSIVE LStrip(_)
LStrip(str) ==
    IF str # <<>> /\ Head(str) = " " THEN LStrip(Tail(str)) ELSE str

RECURSIVE RStrip(_)
RStrip(str) ==
    IF str # <<>> /\ str[Len(str)] = " " THEN RStrip(SubSeq(str, 1, Len(str) - 1)) ELSE str

Strip(str) == RStrip(LStrip(str))

\* c in str, str.count(c)
Contains(str, c) == \E i \in 1..Len(str) : str[i] = c
Count(str, c) == Cardinality({i \in 1..Len(str) : str[i] = c})

\* str.split(c)[0]
FirstPart(str, c) ==
    IF Contains(str, c)
    THEN SubSeq(str, 1, MinOf({i \in 1..Len(str) : str[i] = c}) - 1)
    ELSE str

\* the rest of str after its first c
AfterFirst(str, c) ==
    SubSeq(str, MinOf({i \in 1..Len(str) : str[i] = c}) + 1, Len(str))

\* str.split(c)[1], for a str that contains c
SecondPart(str, c) == FirstPart(AfterFirst(str, c), c)

\* str.isdigit()
IsDigit(str) == str # <<>> /\ \A i \in 1..Len(str) : str[i] = "d"

\* int(str) succeeds: blanks around the digits are accepted
IntParses(str) == IsDigit(Strip(str))

\* _clean_target: the host without comment and port
_clean_target(target) ==
    LET stripped == Strip(target)
        clean_target == IF Contains(stripped, "#")
                        THEN Strip(FirstPart(stripped, "#")) ELSE stripped
    IN  IF Contains(clean_target, ":") /\ Count(clean_target, ":") <= 1
           /\ IsDigit(SecondPart(clean_target, ":"))
        THEN Strip(FirstPart(clean_target, ":"))
        ELSE clean_target

\* the port test_target probes
test_port(target) ==
    IF Contains(target, ":")
    THEN LET port_part == SecondPart(target, ":")
             digits == IF Contains(port_part, "#") THEN FirstPart(port_part, "#")
                       ELSE port_part
         IN  IF IntParses(digits) THEN Strip(digits) ELSE DefaultPort
    ELSE DefaultPort

\* the port save_best_results writes after the host
best_port(original) ==
    IF Contains(original, ":") /\ Count(original, ":") <= 1
    THEN LET port_part == FirstPart(SecondPart(original, ":"), "#")
         IN  IF IsDigit(port_part) THEN port_part ELSE NoPort
    ELSE NoPort

\* _make_history_key(target, original)
_make_history_key(target, original) ==
    LET base == Strip(FirstPart(original, "#"))
    IN  IF base # <<>> THEN base ELSE Strip(target)

\* the deduplication loop of load_targets: seen holds whole lines
RECURSIVE Unique(_, _)
Unique(targets, seen) ==
    IF targets = <<>> THEN <<>>
    ELSE IF Head(targets) \in seen THEN Unique(Tail(targets), seen)
    ELSE <<Head(targets)>> \o Unique(Tail(targets), seen \cup {Head(targets)})

load_targets(targets) == IF targets # <<>> THEN Unique(targets, {}) ELSE targets

\* the lines read_targets_from_file passes on: stripped, not empty, not
\* starting with "#"
Lines(n) ==
    {line \in UNION {[1..len -> Chars] : len \in 1..n} :
        /\ line[1] \notin {" ", "#"}
        /\ line[Len(line)] # " "}

\* lists of short lines, and single lines of full length
LoadInputs(targets, short, long) ==
    UNION {[1..len -> Lines(short)] : len \in 0..targets}
    \cup {<<line>> : line \in Lines(long)}

InitLoad ==
    /\ raw_targets \in LoadInputs(MaxTargets, MaxShortLine, MaxLine)
    /\ unique_targets = <<>>
    /\ parsed = <<>>
    /\ lpc = "start"
    /\ IdleRank
    /\ IdleScore
    /\ IdleQuick
    /\ IdleSched
    /\ IdleHist
    /\ IdleFilter
    /\ IdleOther

\* load_targets returns the deduplicated list
LoadTargets ==
    /\ lpc = "start"
    /\ unique_targets' = load_targets(raw_targets)
    /\ lpc' = "loaded"
    /\ UNCHANGED <<raw_targets, parsed>>
    /\ UNCHANGED <<rankVars, scoreVars, quickVars, schedVars, histVars, filterVars, otherVars>>

\* every loaded target is probed and written: its host, the port probed
\* and the port written to the best list
ParseTargets ==
    /\ lpc = "loaded"
    /\ parsed' = [i \in 1..Len(unique_targets) |->
                    [host |-> _clean_target(unique_targets[i]),
                     test_port |-> test_port(unique_targets[i]),
                     best_port |-> best_port(Strip(unique_targets[i]))]]
    /\ lpc' = "parsed"
    /\ UNCHANGED <<raw_targets, unique_targets>>
    /\ UNCHANGED <<rankVars, scoreVars, quickVars, schedVars, histVars, filterVars, otherVars>>

NextLoad == LoadTargets \/ ParseTargets

SpecLoad == InitLoad /\ [][NextLoad]_vars

\* ------------------------------------------- calculate_stability_score
\* largest coefficient of variation of the model, in percent
MaxCv == 75

\* int(x) for a value x >= 0 given in tenths
IntOfTenths(x) == x \div 10

\* the score before int(), in tenths, with the last band starting ten points lower
ScoreTenthsFrom30(c) ==
    IF c < 50 THEN 1000 - c
    ELSE IF c < 100 THEN 900 - (c - 50) * 2
    ELSE IF c < 200 THEN 800 - (c - 100) * 2
    ELSE IF c < 300 THEN 600 - (c - 200) * 2
    ELSE Max(0, 300 - (c - 300))

\* the score before int(), in tenths, for cv = c tenths of a percent
ScoreTenths(c) ==
    IF c < 50 THEN 1000 - c
    ELSE IF c < 100 THEN 900 - (c - 50) * 2
    ELSE IF c < 200 THEN 800 - (c - 100) * 2
    ELSE IF c < 300 THEN 600 - (c - 200) * 2
    ELSE Max(0, 400 - (c - 300))

\* StatisticalAnalyzer.calculate_stability_score: int(max(0, min(100, score)))
calculate_stability_score(c) == IntOfTenths(Max(0, Min(1000, ScoreTenths(c))))

InitStab ==
    /\ cv_in \in 0..(10 * MaxCv)
    /\ cv_score = NoneVal
    /\ cvpc = "input"
    /\ IdleRank
    /\ IdleScore
    /\ IdleQuick
    /\ IdleSched
    /\ IdleHist
    /\ IdleFilter
    /\ IdleLoad
    /\ IdleAgg
    /\ IdleBest

\* stability_score = StatisticalAnalyzer.calculate_stability_score(stats['cv'])
StabilityScore ==
    /\ cvpc = "input"
    /\ cv_score' = calculate_stability_score(cv_in)
    /\ cvpc' = "scored"
    /\ UNCHANGED cv_in
    /\ UNCHANGED <<rankVars, scoreVars, quickVars, schedVars, histVars, filterVars, loadVars,
                   aggVars, bestVars>>

NextStab == StabilityScore

SpecStab == InitStab /\ [][NextStab]_vars

\* ------------------------------------------- save_history and the next report
\* the target line result entry i was probed from: the first two lines differ
\* only in their comment, the others are hosts of their own
TargetLine(i) ==
    IF i = 1 THEN <<"a", "#", "a">>
    ELSE IF i = 2 THEN <<"a", "#", "d">>
    ELSE [j \in 1..(i - 1) |-> "d"]

\* key and overall score of a result entry, as save_history and
\* compare_with_history read them
KeyAndScore(r) ==
    [key |-> _make_history_key(_clean_target(TargetLine(r.original)), TargetLine(r.original)),
     score |-> IF r.scores.empty THEN NoneVal ELSE r.scores.overall]

\* sorted_results = self.sort_results('overall')
\* successful_results = [r for r in sorted_results if r['success']]
SuccessfulResults(rs) == SelectSeq(sort_results(rs, "overall"), IsSuccess)

KeysAndScores(rs) == [i \in 1..Len(rs) |-> KeyAndScore(rs[i])]

\* the file save_history writes for self.results = rs
save_history(rs) ==
    DictFile(HISTORY_VERSION, "list", SavedResults(KeysAndScores(SuccessfulResults(rs))))

\* sum(score_diffs) over the keys of a function
RECURSIVE SumOver(_, _)
SumOver(f, keys) ==
    IF keys = {} THEN 0
    ELSE LET k == CHOOSE x \in keys : TRUE
         IN  f[k] + SumOver(f, keys \ {k})

\* the sum of score_diffs, of which avg_score_change is the mean (0 for none)
ScoreDiffsTotal(successful, h) ==
    LET current_map == CurrentMap(successful)
        history_map == HistoryMap(IF h.results_kind = "list" THEN h.results ELSE <<>>)
        known == {k \in CommonIps(DOMAIN current_map, DOMAIN history_map) :
                    current_map[k].score # NoneVal /\ history_map[k].score # NoneVal}
        score_diffs == [k \in known |-> current_map[k].score - history_map[k].score]
    IN  SumOver(score_diffs, known)

InitSnap ==
    /\ \E n \in 0..MaxResults : results \in RankInputs(n)
    /\ sort_by = "none"
    /\ ranked = <<>>
    /\ reranked = <<>>
    /\ rpc = "idle"
    /\ successful_results = <<>>
    /\ history_file = NoFile
    /\ history = <<>>
    /\ comparison = <<>>
    /\ mirrored = <<>>
    /\ recommendation = "none"
    /\ hpc = "unsaved"
    /\ IdleScore
    /\ IdleQuick
    /\ IdleSched
    /\ IdleFilter
    /\ IdleLoad
    /\ IdleOther

\* self.save_history(); the results stay as they are for the report that follows
SaveHistory ==
    /\ hpc = "unsaved"
    /\ history_file' = save_history(results)
    /\ successful_results' = KeysAndScores(SuccessfulResults(results))
    /\ hpc' = "start"
    /\ UNCHANGED <<history, comparison, mirrored, recommendation>>
    /\ UNCHANGED <<rankVars, scoreVars, quickVars, schedVars, filterVars, loadVars, otherVars>>

NextSnap == SaveHistory \/ SaveResultsMd

SpecSnap == InitSnap /\ [][NextSnap]_vars

\* ------------------------------------------------------ save_best_results
\* largest number of result entries of a best list run
MaxBest == 2

\* the advertising words of comments: "@", and one token each for the words
\* the source spells in Chinese ("channel", "join")
AdTokens == {"@", "channel", "join"}

\* target lines with a region tag, with advertising after or inside the tag,
\* without a comment, and with a colon inside the comment
BestLines ==
    {<<"a", ":", "d", "#", "a", "-", "channel", "@", "a">>,
     <<"a", "#", "@", "a">>,
     <<"a", "#", "a", "join", "-", "a">>,
     <<"a", "#", "a">>,
     <<"a", ":", "d">>,
     <<"a", "#", ":", "d">>,
     <<"a", ":", "d", "#", "a", ":">>}

\* _extract_location_tag_from_comment; <<>> stands for None
_extract_location_tag_from_comment(original) ==
    IF ~Contains(original, "#") THEN <<>>
    ELSE LET comment_part == Strip(AfterFirst(original, "#"))
             candidate == Strip(FirstPart(comment_part, "-"))
         IN  IF comment_part = <<>> THEN <<>>
             ELSE IF candidate = <<>> THEN <<>>
             ELSE IF \E token \in AdTokens : Contains(candidate, token) THEN <<>>
             ELSE candidate

\* _resolve_location_tag: the location of the test result, else the tag of
\* the comment, else the country the lookup gives, else the target itself
\* (a target is never empty here)
_resolve_location_tag(target, original, result, country_code) ==
    IF result.location # "None" THEN <<result.location>>
    ELSE IF _extract_location_tag_from_comment(original) # <<>>
         THEN _extract_location_tag_from_comment(original)
    ELSE IF country_code # "Unknown" THEN <<country_code>>
    ELSE target

\* the lines save_best_results writes for the top results
BestListLines(top_results, country_code) ==
    [i \in 1..Len(top_results) |->
        LET original == top_results[i].original
            clean_target == top_results[i].target
        IN  [host |-> clean_target,
             port |-> best_port(original),
             tag |-> _resolve_location_tag(clean_target, original, top_results[i],
                                           country_code)]]

\* the file as save_best_results leaves it
save_best_results(rs, limit, file, country_code) ==
    LET successful == SelectSeq(sort_results(rs, "overall"), IsSuccess)
        top_results == SubSeq(successful, 1, Min(limit, Len(successful)))
    IN  IF top_results = <<>> THEN file ELSE BestListLines(top_results, country_code)

\* the file left by an earlier run
ExistingFile == <<[host |-> <<"old">>, port |-> NoPort, tag |-> <<"old">>]>>

\* a result entry of target line, as test_target returns it
BestEntry(line, profile, location) ==
    [original |-> line, target |-> _clean_target(line), location |-> location,
     success |-> profile.success, error |-> profile.error, ping |-> profile.ping,
     download |-> profile.download, scores |-> profile.scores]

BestProfiles ==
    {p \in RankProfiles :
        /\ p.ping.avg_delay \in {11, Absent}
        /\ p.ping.loss_rate \in {0, 20, Absent}
        /\ ~p.download.success}

BestEntries ==
    {BestEntry(line, profile, location) :
        line \in BestLines, profile \in BestProfiles, location \in {"None", "g"}}

InitBest ==
    /\ best_results \in UNION {[1..n -> BestEntries] : n \in 0..MaxBest}
    /\ top_n \in 1..MaxBest
    /\ best_file = ExistingFile
    /\ bpc = "start"
    /\ IdleRank
    /\ IdleScore
    /\ IdleQuick
    /\ IdleSched
    /\ IdleHist
    /\ IdleFilter
    /\ IdleLoad
    /\ IdleStab
    /\ IdleAgg

\* self.save_best_results(output_file, top_n); the lookup of a country is an
\* answer of the network
SaveBestResults ==
    /\ bpc = "start"
    /\ \E country_code \in {"Unknown", "g"} :
        best_file' = save_best_results(best_results, top_n, best_file, country_code)
    /\ bpc' = "saved"
    /\ UNCHANGED <<best_results, top_n>>
    /\ UNCHANGED <<rankVars, scoreVars, quickVars, schedVars, histVars, filterVars, loadVars,
                   stabVars, aggVars>>

NextBest == SaveBestResults

SpecBest == InitBest /\ [][NextBest]_vars




\* ------------------------------------------------------------------ claims
\* the loss tiers as the ranking contract words them
ContractTier(loss) ==
    IF loss = 0 THEN 1 ELSE IF loss < 5 THEN 2 ELSE IF loss < 10 THEN 3 ELSE 4

HasLoss(r) == r.ping.loss_rate \notin {NoneVal, Absent}

QualityRanked == rpc \in {"ranked", "reranked"} /\ sort_by = "quality"

Before(s, a, b) == \E i, j \in 1..Len(s) : i < j /\ s[i] = a /\ s[j] = b

\* C1: in the quality ranking a successful entry of a strictly lower loss tier
\* appears before every successful entry of a higher tier, whatever their
\* delays, speeds and scores
C1_TieringInvariant ==
    QualityRanked =>
        \A a, b \in 1..Len(results) :
            (/\ results[a].success /\ results[b].success
             /\ HasLoss(results[a]) /\ HasLoss(results[b])
             /\ ContractTier(results[a].ping.loss_rate)
                    < ContractTier(results[b].ping.loss_rate))
            => Before(ranked, results[a], results[b])

\* a 0%-loss entry with delay 510 and score 40 ranked before a 20%-loss entry
\* with delay 11 and score 90 that preceded it in the input
C1_Witness ==
    /\ QualityRanked
    /\ \E a, b \in 1..Len(results) :
        /\ b < a
        /\ results[a].success /\ results[b].success
        /\ results[a].ping.loss_rate = 0 /\ results[a].ping.avg_delay = 510
        /\ results[b].ping.loss_rate = 20 /\ results[b].ping.avg_delay = 11
        /\ results[a].scores.overall < results[b].scores.overall
        /\ Before(ranked, results[a], results[b])

EffDelay(r) == IF r.ping.avg_delay \in {NoneVal, Absent} THEN 1000 ELSE r.ping.avg_delay
EffSpeed(r) == IF r.download.success THEN r.download.speed_mbps ELSE 0
EffTier(r) == IF HasLoss(r) THEN ContractTier(r.ping.loss_rate) ELSE 4

IsPermutation(s, t) ==
    /\ Len(s) = Len(t)
    /\ \E f \in [1..Len(s) -> 1..Len(s)] :
        /\ \A i, j \in 1..Len(s) : i # j => f[i] # f[j]
        /\ \A i \in 1..Len(s) : s[i] = t[f[i]]

\* C2: the quality ranking is a permutation of its input: tiers in the order
\* perfect, good, acceptable, poor, each by delay ascending then speed
\* descending, then the failed entries in input order
C2_QualityOrder ==
    QualityRanked =>
        /\ IsPermutation(ranked, results)
        /\ \A i, j \in 1..Len(ranked) : i < j =>
            /\ ranked[j].success => ranked[i].success
            /\ (ranked[i].success /\ ranked[j].success) =>
                /\ EffTier(ranked[i]) <= EffTier(ranked[j])
                /\ EffTier(ranked[i]) = EffTier(ranked[j])
                        => EffDelay(ranked[i]) <= EffDelay(ranked[j])
                /\ (/\ EffTier(ranked[i]) = EffTier(ranked[j])
                    /\ EffDelay(ranked[i]) = EffDelay(ranked[j]))
                        => EffSpeed(ranked[i]) >= EffSpeed(ranked[j])
            /\ (~ranked[i].success /\ ~ranked[j].success)
                    => ranked[i].original < ranked[j].original

\* a failed entry first in the input, then a delay tie that the speed breaks
\* against the input order
C2_Witness ==
    /\ QualityRanked
    /\ Len(results) = 3
    /\ ~results[1].success /\ results[2].success /\ results[3].success
    /\ TierOf(results[2]) = TierOf(results[3])
    /\ EffDelay(results[2]) = EffDelay(results[3])
    /\ EffSpeed(results[2]) < EffSpeed(results[3])
    /\ ranked = <<results[3], results[2], results[1]>>

\* C3: ranking an already ranked result set again returns the same order
C3_Idempotent == rpc = "reranked" => reranked = ranked

\* a ranking that had to reorder its input and holds two entries of equal key
C3_Witness ==
    /\ rpc = "reranked"
    /\ ranked # results
    /\ reranked = ranked
    /\ \E i, j \in 1..Len(ranked) :
        /\ i < j /\ ranked[i].success /\ ranked[j].success
        /\ ranked[i].ping = ranked[j].ping
        /\ ranked[i].download = ranked[j].download
        /\ ranked[i].scores = ranked[j].scores

ScoreSetProduced == spc = "scored" /\ ~score_out.raised

\* C4: every score set calculate_proxy_score returns has availability in 0..20,
\* speed in 0..30, stability in 0..30, responsiveness in 0..20, overall equal
\* to their sum, and overall, streaming, gaming and rtc in 0..100
C4_ScoreRanges ==
    ScoreSetProduced =>
        LET sc == score_out.scores
        IN  /\ sc.availability \in 0..20
            /\ sc.speed \in 0..30
            /\ sc.stability \in 0..30
            /\ sc.responsiveness \in 0..20
            /\ sc.overall = sc.availability + sc.speed + sc.stability + sc.responsiveness
            /\ sc.overall \in 0..100
            /\ sc.streaming \in 0..100
            /\ sc.gaming \in 0..100
            /\ sc.rtc \in 0..100

\* a score set in which every sub-score is at the top of its range
C4_Witness ==
    /\ ScoreSetProduced
    /\ score_out.scores.availability = 20
    /\ score_out.scores.speed = 30
    /\ score_out.scores.stability = 30
    /\ score_out.scores.responsiveness = 20
    /\ score_out.scores.overall = 100

Probe(kind, attempt) ==
    {i \in 1..Len(probes) : probes[i].kind = kind /\ probes[i].attempt = attempt}

AttemptSucceeded(a) ==
    /\ \E i \in Probe("ping", a) : probes[i].outcome = "delays"
    /\ \E i \in Probe("tcp", a) : probes[i].outcome = "ok"

\* C5: the quick check reports available only if, in one attempt, the ping gave
\* a delay sample and the TCP connect that followed succeeded; a TCP connect is
\* only made after the ping of the same attempt gave a delay sample
C5_AvailableOnlyIfPingAndTcp ==
    /\ q_result.available =>
        /\ \E a \in 0..(max_attempts - 1) : AttemptSucceeded(a)
        /\ q_result.quick_delay # NoneVal
    /\ \A i \in 1..Len(probes) : probes[i].kind = "tcp" =>
        /\ i > 1
        /\ probes[i - 1].kind = "ping"
        /\ probes[i - 1].attempt = probes[i].attempt
        /\ probes[i - 1].outcome = "delays"

\* available on the retry, after a first attempt whose connect was refused
C5_Witness ==
    /\ q_pc = "returned"
    /\ q_result.available
    /\ q_attempt = 1
    /\ \E i \in Probe("tcp", 0) : probes[i].outcome = "refused"
    /\ AttemptSucceeded(1)

AttemptsMade == Cardinality({i \in 1..Len(probes) : probes[i].kind = "ping"})

AttemptFailed(a) == Probe("ping", a) # {} /\ ~AttemptSucceeded(a)

\* C6 (safety part): at most two attempts; the second only after the first
\* failed and after the delay; a success returns at once; unavailable is
\* returned only after two failed attempts
C6_RetryInvariant ==
    /\ AttemptsMade <= 2
    /\ \A i \in Probe("ping", 1) :
        /\ AttemptFailed(0)
        /\ i > 1 /\ probes[i - 1].kind = "sleep" /\ probes[i - 1].attempt = 0
    /\ \A a \in 0..1 : AttemptSucceeded(a) =>
        /\ q_pc = "returned" /\ q_result.available
        /\ probes[Len(probes)].kind = "tcp" /\ probes[Len(probes)].attempt = a
    /\ (q_pc = "returned" /\ ~q_result.available) =>
        /\ AttemptsMade = 2
        /\ AttemptFailed(0) /\ AttemptFailed(1)

DeepProbed == {t \in Targets : deep[t].st \in {"running", "finished", "collected"}}

\* the targets the collector of phase 1 reported available
MarkedAvailable == {t \in Targets : verdict[t] = "available"}

\* the targets phase 2 is meant for
Scope == IF enable_quick_check THEN MarkedAvailable ELSE Targets

\* C7: with the quick check enabled only targets phase 1 marked available are
\* ever deep-probed (none that was unavailable or whose check raised), and by
\* the end of the run every one of them was; with the quick check disabled
\* every input target is deep-probed
C7_Phase2Scope ==
    /\ DeepProbed \subseteq Scope
    /\ \A t \in DeepProbed : verdict[t] \notin {"unavailable", "raised"}
    /\ phase = "done" => DeepProbed = Scope

\* a finished run in which target 1 was available and deep-probed and the
\* quick check of target 2 raised
C7_Witness ==
    /\ phase = "done"
    /\ enable_quick_check
    /\ verdict[1] = "available"
    /\ verdict[2] = "raised"
    /\ deep[1].st = "collected"
    /\ deep[2].st = "none"

\* the positions of the entries of target t in the result collection
Entries(t) == {i \in 1..Len(results) : results[i].original = t}

HasReason(entry) == entry.error \notin {"None", ""}

IsScored(entry) == entry.success /\ ~entry.scores.empty

IsFailedEntry(entry) == ~entry.success /\ HasReason(entry)

TerminalState(t) ==
    IF Entries(t) = {} THEN "Skipped"
    ELSE IF \A i \in Entries(t) : IsScored(results[i]) THEN "Scored"
    ELSE "Failed"

C8_Terminal ==
    phase = "done" =>
        \A t \in Targets :
            IF t \in Scope
            THEN /\ Cardinality(Entries(t)) = 1
                 /\ TerminalState(t) \in {"Scored", "Failed"}
                 /\ \A i \in Entries(t) :
                        IsScored(results[i]) \/ IsFailedEntry(results[i])
            ELSE TerminalState(t) = "Skipped"

ProbeRaised(t) ==
    /\ deep[t].st \in {"finished", "collected"}
    /\ \/ deep[t].raised
       \/ deep[t].ret.path \in {"probe_exception", "scoring_exception", "display_exception"}

C9_Isolated ==
    /\ \A t \in Targets :
        /\ Cardinality(Entries(t)) = (IF deep[t].st = "collected" THEN 1 ELSE 0)
        /\ (ProbeRaised(t) /\ deep[t].st = "collected") =>
               \A i \in Entries(t) : IsFailedEntry(results[i])
    /\ phase = "done" =>
        \A t \in Targets : deep[t].st # "none" => Cardinality(Entries(t)) = 1

\* a step that changes the result collection appends one entry to it
C9_AppendOnly ==
    results' # results =>
        /\ Len(results') = Len(results) + 1
        /\ SubSeq(results', 1, Len(results)) = results

ScoringApplied(ret) == ret.path \in {"scoring_exception", "display_exception", "scored"}

\* C10: an entry with success = False was never given to the scoring engine
\* and carries no scores, an entry with success = True carries scores and no
\* error, and a ranked output has no failed entry before a successful one
C10_FailedNeverScored ==
    /\ \A t \in Targets :
        (deep[t].st \in {"finished", "collected"} /\ ~deep[t].raised) =>
            LET ret == deep[t].ret
            IN  /\ ~ret.result.success =>
                    ~ScoringApplied(ret) /\ ret.result.scores.empty
                /\ ret.result.success =>
                    ~ret.result.scores.empty /\ ret.result.error = "None"
    /\ rpc = "ranked" =>
        \A i, j \in 1..Len(ranked) :
            (~ranked[i].success /\ ranked[j].success) => j < i

\* the entry the collecting thread appends for the future of target t
FutureEntry(t) ==
    IF deep[t].raised THEN RaisedEntry(t, deep[t].exc) ELSE deep[t].ret.result

\* a step of a pool thread on the deep probe of t
WorkerStep(t) == deep'[t] # deep[t] /\ deep'[t].st \in {"running", "finished"}

\* the collecting thread consumes the finished future of t
CollectorStep(t) ==
    /\ deep[t].st = "finished"
    /\ deep'[t].st = "collected"
    /\ \A u \in Targets \ {t} : deep'[u] = deep[u]

C11_CollectorOnly ==
    /\ (\E t \in Targets : WorkerStep(t)) => results' = results
    /\ results' # results =>
        \E t \in Targets :
            /\ CollectorStep(t)
            /\ results' = Append(results, FutureEntry(t))

C11_NothingLost ==
    /\ Len(results) = Cardinality({t \in Targets : deep[t].st = "collected"})
    /\ \A t \in Targets :
        deep[t].st = "collected" =>
            \E i \in 1..Len(results) :
                /\ results[i] = FutureEntry(t)
                /\ Entries(t) = {i}

\* C11: the result collection changes only when the collecting thread
\* consumes a finished future, and then by one appended entry; no step of a
\* worker changes it; whatever the order of completions, it holds exactly the
\* entry of every collected future, each once
C11_CollectionUnderConcurrency == []C11_NothingLost /\ [][C11_CollectorOnly]_vars

\* the probe submitted second completed and was collected first, while the
\* probe submitted first was still running
C11_Witness ==
    /\ deep[1].st = "running"
    /\ deep[2].st = "collected"
    /\ ~enable_quick_check
    /\ results = <<FutureEntry(2)>>

\* the keys of the current successful entries and of the history snapshot
CurrentKeys == {successful_results[i].key : i \in 1..Len(successful_results)}
HistoryKeys == {history.results[i].key : i \in 1..Len(history.results)}

Compared == hpc \in {"compared", "mirrored"}

\* C12: new is the current keys without the history keys, removed the history
\* keys without the current keys, only keys of the intersection are treated
\* as common, and every key of either side is in exactly one of the three
C12_DiffSets ==
    Compared =>
        LET common == CurrentKeys \cap HistoryKeys
            changed == {x.target : x \in comparison.rank_changes}
                       \cup {x.target : x \in comparison.score_changes}
        IN  /\ comparison.new_ips = CurrentKeys \ HistoryKeys
            /\ comparison.removed_ips = HistoryKeys \ CurrentKeys
            /\ changed \subseteq common
            /\ comparison.new_ips \cup comparison.removed_ips \cup common
                 = CurrentKeys \cup HistoryKeys
            /\ comparison.new_ips \cap comparison.removed_ips = {}
            /\ comparison.new_ips \cap common = {}
            /\ comparison.removed_ips \cap common = {}

\* current keys 1, 2 against history keys 2, 3: one new, one removed, one
\* common key whose rank changed
C12_Witness ==
    /\ hpc = "compared"
    /\ comparison.new_ips = {1}
    /\ comparison.removed_ips = {3}
    /\ {x.target : x \in comparison.rank_changes} = {2}

\* rank and score of key k in the current run and in the history snapshot
CurrentRank(k) == MinOf({i \in 1..Len(successful_results) : successful_results[i].key = k})
CurrentScore(k) == successful_results[CurrentRank(k)].score
HistoryItem(k) ==
    history.results[MaxOf({i \in 1..Len(history.results) : history.results[i].key = k})]
RankDiffOf(k) == HistoryItem(k).rank - CurrentRank(k)
ScoresKnown(k) == CurrentScore(k) # NoneVal /\ HistoryItem(k).score # NoneVal
ScoreDiffOf(k) == CurrentScore(k) - HistoryItem(k).score

\* the common keys whose rank moved, and those whose score moved by 5 or more
RankMoved == {k \in CurrentKeys \cap HistoryKeys : RankDiffOf(k) # 0}
ScoreMoved ==
    {k \in CurrentKeys \cap HistoryKeys : ScoresKnown(k) /\ Abs(ScoreDiffOf(k)) >= 5}

\* every reported change carries the differences of its key
ChangesTruthful ==
    LET rank_moved == RankMoved
        score_moved == ScoreMoved
    IN  /\ \A x \in comparison.rank_changes :
            x.target \in rank_moved /\ x.rank_diff = RankDiffOf(x.target)
        /\ \A x \in comparison.score_changes :
            x.target \in score_moved /\ x.score_diff = ScoreDiffOf(x.target)

\* history {A: rank 1, score 90} against current {A: rank 1, score 80}
Scenario13 ==
    /\ successful_results = <<[key |-> 1, score |-> 80]>>
    /\ history.results = <<[key |-> 1, rank |-> 1, score |-> 90]>>

ScenarioOutcome13 ==
    /\ comparison.rank_changes = {}
    /\ {<<x.target, x.score_diff>> : x \in comparison.score_changes} = {<<1, -10>>}

\* C13 as stated: a rank change is reported for a common key if and only if
\* its rank_diff is nonzero, a score change if and only if |score_diff| >= 5
C13_EveryChangeReported ==
    Compared =>
        /\ ChangesTruthful
        /\ {x.target : x \in comparison.rank_changes} = RankMoved
        /\ {x.target : x \in comparison.score_changes} = ScoreMoved

\* the reported targets are all of moved when these are at most ShownChanges,
\* and otherwise ShownChanges of them with no larger change left out
ShownOf(reported, moved, Magnitude(_)) ==
    /\ reported \subseteq moved
    /\ Cardinality(reported) = Min(Cardinality(moved), ShownChanges)
    /\ \A o \in moved \ reported : \A k \in reported : Magnitude(o) <= Magnitude(k)

RankMagnitudeOf(k) == Abs(RankDiffOf(k))
ScoreMagnitudeOf(k) == Abs(ScoreDiffOf(k))

\* C13 (amended): every reported change is of a common key and carries
\* rank_diff = history.rank - current.rank, nonzero, or score_diff =
\* current.score - history.score with |score_diff| >= 5; all such changes are
\* reported when there are at most 10 of a kind, otherwise the 10 largest; the
\* scenario yields the score change of -10 and no rank change
C13_ChangeRecords ==
    Compared =>
        LET rank_moved == RankMoved
            score_moved == ScoreMoved
            rank_reported == {x.target : x \in comparison.rank_changes}
            score_reported == {x.target : x \in comparison.score_changes}
        IN  /\ ChangesTruthful
            /\ ShownOf(rank_reported, rank_moved, RankMagnitudeOf)
            /\ ShownOf(score_reported, score_moved, ScoreMagnitudeOf)
            /\ Scenario13 => ScenarioOutcome13

\* the scenario of the claim, compared
C13_Witness ==
    /\ hpc = "compared"
    /\ Scenario13
    /\ ScenarioOutcome13

\* the changes as pairs of key and difference
RankDiffs(c) == {<<x.target, x.rank_diff>> : x \in c.rank_changes}
ScoreDiffs(c) == {<<x.target, x.score_diff>> : x \in c.score_changes}
Negated(diffs) == {<<d[1], -d[2]>> : d \in diffs}

\* C14: the comparison with current and history exchanged has new and removed
\* exchanged, changes for the same keys, and every rank_diff and score_diff
\* negated
C14_DiffSymmetry ==
    hpc = "mirrored" =>
        /\ mirrored.new_ips = comparison.removed_ips
        /\ mirrored.removed_ips = comparison.new_ips
        /\ RankDiffs(mirrored) = Negated(RankDiffs(comparison))
        /\ ScoreDiffs(mirrored) = Negated(ScoreDiffs(comparison))

\* at least 3 new keys, or 3 removed keys, or 3 common keys that moved by at
\* least 3 ranks
UpdateDue ==
    \/ Cardinality(comparison.new_ips) >= 3
    \/ Cardinality(comparison.removed_ips) >= 3
    \/ Cardinality({k \in CurrentKeys \cap HistoryKeys : Abs(RankDiffOf(k)) >= 3}) >= 3

AnyChange ==
    \/ comparison.new_ips # {}
    \/ comparison.removed_ips # {}
    \/ comparison.rank_changes # {}
    \/ comparison.score_changes # {}

\* C15 as stated: update when due, otherwise consider if and only if any
\* change exists (new key, removed key, rank change or score change),
\* otherwise stable
C15_ConsiderOnAnyChange ==
    Compared =>
        recommendation = (IF UpdateDue THEN "update"
                          ELSE IF AnyChange THEN "consider" ELSE "stable")

\* C15 (amended): update if and only if at least 3 new keys, 3 removed keys or
\* 3 common keys with |rank_diff| >= 3; otherwise consider if and only if a
\* key is new or removed; otherwise stable, also when only ranks or scores of
\* common keys changed; always exactly one of the three
C15_Recommendation ==
    Compared =>
        /\ recommendation \in {"update", "consider", "stable"}
        /\ recommendation =
            (IF UpdateDue THEN "update"
             ELSE IF comparison.new_ips # {} \/ comparison.removed_ips # {}
             THEN "consider" ELSE "stable")

\* two common keys exchanged their ranks and lost 10 points, no key is new or
\* removed: the advice is stable
C15_Witness ==
    /\ hpc = "compared"
    /\ comparison.new_ips = {}
    /\ comparison.removed_ips = {}
    /\ Cardinality(comparison.rank_changes) = 2
    /\ Cardinality(comparison.score_changes) = 2
    /\ recommendation = "stable"

Reported == hpc \in {"compared", "mirrored", "skipped"}

\* the file is missing, unreadable, not an object, or its results are not a list
Malformed ==
    \/ history_file.state # "dict"
    \/ history_file.results_kind = "not_list"

\* what load_history returns for a file it accepts
LoadedAsStored ==
    /\ ~history.is_none
    /\ history.version = history_file.version
    /\ history.results_kind = history_file.results_kind
    /\ history.results = history_file.results

DiffSkipped == hpc = "skipped" /\ comparison = <<>> /\ recommendation = "none"

\* C16 as stated: no history is returned whenever the file is missing,
\* unreadable, not a structured record, has results that are not a sequence
\* or carries a version different from the current one; otherwise the
\* snapshot is returned
C16_OnlyCurrentVersionLoaded ==
    Reported =>
        IF \/ Malformed
           \/ (history_file.version # Absent /\ history_file.version # HISTORY_VERSION)
        THEN history.is_none /\ DiffSkipped
        ELSE LoadedAsStored

\* C16 (amended): no history is returned, and the diff is skipped, whenever
\* the file is missing, unreadable, not an object, has results that are not a
\* list, or carries a version other than 0 and the current version; a file
\* of the current version, of version 0 or without a version is returned as
\* stored
C16_HistoryLoading ==
    Reported =>
        IF \/ Malformed
           \/ history_file.version \notin {Absent, 0, HISTORY_VERSION}
        THEN history.is_none /\ DiffSkipped
        ELSE LoadedAsStored

\* a snapshot of version 2 with one saved result: no history, no diff
C16_Witness ==
    /\ hpc = "skipped"
    /\ history_file.state = "dict"
    /\ history_file.version = 2
    /\ Len(history_file.results) = 1
    /\ history.is_none

\* the value at index k, from 0, of the sorted data: fewer than k + 1 values
\* are below it and at least k + 1 are not above it
ValueAt(k) ==
    CHOOSE v \in {data[i] : i \in 1..Len(data)} :
        /\ Cardinality({i \in 1..Len(data) : data[i] < v}) <= k
        /\ Cardinality({i \in 1..Len(data) : data[i] <= v}) > k

\* the positions of data within [Q1 - 1.5 * IQR, Q3 + 1.5 * IQR]
InsideFences ==
    LET q1 == ValueAt(Len(data) \div 4)
        q3 == ValueAt((3 * Len(data)) \div 4)
    IN  {i \in 1..Len(data) :
            /\ 2 * data[i] >= 2 * q1 - 3 * (q3 - q1)
            /\ 2 * data[i] <= 2 * q3 + 3 * (q3 - q1)}

\* seq is the values of data at the positions of keep, in input order
IsSelection(seq, keep) ==
    /\ Len(seq) = Cardinality(keep)
    /\ \A i \in keep : seq[Cardinality({j \in keep : j <= i})] = data[i]

\* C17: for non-empty data the IQR filter returns exactly the values inside
\* the fences, in input order, or data itself if none is inside; the result
\* is not empty; of the scenario's samples exactly 200 is removed
C17_IqrFilter ==
    (fpc = "done" /\ data # <<>>) =>
        /\ IF InsideFences # {} THEN IsSelection(filtered, InsideFences)
           ELSE filtered = data
        /\ filtered # <<>>
        /\ data = ScenarioData =>
               filtered = <<100, 102, 98, 105, 103, 99, 101, 104, 97, 102, 100>>

\* the scenario's samples filtered: 200 is gone, the rest is in input order
C17_Witness ==
    /\ fpc = "done"
    /\ data = ScenarioData
    /\ Len(filtered) = 11
    /\ \A i \in 1..Len(filtered) : filtered[i] # 200

\* the identity key of a target line: host[:port], the #comment stripped
IdentityKey(line) == Strip(FirstPart(line, "#"))

\* the positions of raw_targets whose identity key did not occur before
FirstSeen ==
    {i \in 1..Len(raw_targets) :
        \A j \in 1..(i - 1) : IdentityKey(raw_targets[j]) # IdentityKey(raw_targets[i])}

\* C18: load_targets returns, in first-seen order, the first line of every
\* identity key and no other line, so no two returned targets have the same
\* identity key and lines that differ only in their comment are duplicates
C18_DedupByIdentityKey ==
    lpc \in {"loaded", "parsed"} =>
        /\ Len(unique_targets) = Cardinality(FirstSeen)
        /\ \A i \in FirstSeen :
            unique_targets[Cardinality({j \in FirstSeen : j <= i})] = raw_targets[i]
        /\ \A i, j \in 1..Len(unique_targets) :
            IdentityKey(unique_targets[i]) = IdentityKey(unique_targets[j]) => i = j

\* what is left of a line without its comment, and whether it ends in a port:
\* exactly one colon, followed by digits only
Remainder(line) == Strip(FirstPart(line, "#"))
HasPort(line) ==
    /\ Count(Remainder(line), ":") = 1
    /\ IsDigit(AfterFirst(Remainder(line), ":"))
PortOf(line) == AfterFirst(Remainder(line), ":")

\* the three parsers of target i follow the rule
HostByRule(i) ==
    parsed[i].host = (IF HasPort(unique_targets[i])
                      THEN Strip(FirstPart(Remainder(unique_targets[i]), ":"))
                      ELSE Remainder(unique_targets[i]))
ProbedPortByRule(i) ==
    parsed[i].test_port = (IF HasPort(unique_targets[i])
                           THEN PortOf(unique_targets[i]) ELSE DefaultPort)
WrittenPortByRule(i) ==
    parsed[i].best_port = (IF HasPort(unique_targets[i])
                           THEN PortOf(unique_targets[i]) ELSE NoPort)

\* C19: a port is split off a line only if the line without its comment has
\* exactly one colon and only digits after it; this holds for the host of
\* _clean_target, the port probed by test_target (443 otherwise) and the port
\* written by save_best_results (none otherwise)
C19_PortSplitting ==
    lpc = "parsed" =>
        \A i \in 1..Len(parsed) :
            HostByRule(i) /\ ProbedPortByRule(i) /\ WrittenPortByRule(i)


\* the latency contribution to the speed sub-score, by the documented thresholds
LatencyContribution(delay) ==
    IF IsNone(delay) THEN 0
    ELSE IF delay < 50 THEN 15
    ELSE IF delay < 100 THEN 12
    ELSE IF delay < 150 THEN 9
    ELSE IF delay < 200 THEN 6
    ELSE IF delay < 300 THEN 3
    ELSE 1

\* no successful download-speed measurement is part of the test results
NoDownloadMeasurement ==
    test_results.download.empty \/ ~test_results.download.success

\* C20: when no successful download-speed measurement exists, the speed
\* sub-score of a returned score set is exactly twice the latency contribution
\* (15/12/9/6/3/1 for delay <50/<100/<150/<200/<300/otherwise), for every delay
C20_SpeedWithoutDownload ==
    (ScoreSetProduced /\ NoDownloadMeasurement) =>
        score_out.scores.speed = 2 * LatencyContribution(test_results.ping.avg_delay)

\* the doubling restricted to delays under 300 ms
C20_DoubledBelow300 ==
    (/\ ScoreSetProduced
     /\ NoDownloadMeasurement
     /\ test_results.ping.avg_delay < 300) =>
        score_out.scores.speed = 2 * LatencyContribution(test_results.ping.avg_delay)


\* the points of the throughput thresholds (5, 2, 1 and 0.5 megabytes per
\* second) for a throughput given in megabits per second
ThroughputPoints(speed_mbps) ==
    IF speed_mbps >= 40 THEN 15
    ELSE IF speed_mbps >= 16 THEN 10
    ELSE IF speed_mbps >= 8 THEN 6
    ELSE IF speed_mbps >= 4 THEN 3
    ELSE 1

\* the download result is a successful measurement of test_download_speed
MeasuredByDownloadTest ==
    /\ ~test_results.download.empty
    /\ test_results.download.success
    /\ test_results.download.speed_mbps # Absent

\* C21: when the download test succeeded, the throughput it measured adds to
\* the speed sub-score the points of its throughput band (15 for the highest
\* band, 1 for the lowest), on top of the latency contribution
C21_ThroughputContribution ==
    (ScoreSetProduced /\ MeasuredByDownloadTest) =>
        score_out.scores.speed
            = LatencyContribution(test_results.ping.avg_delay)
              + ThroughputPoints(test_results.download.speed_mbps)


\* calculate_stability_score has returned
CvScored == cvpc = "scored"

\* the score is an integer of 0..100 and no smaller cv has a smaller score
CvScoreMonotone ==
    /\ cv_score \in 0..100
    /\ \A c \in 0..cv_in : calculate_stability_score(c) >= cv_score

\* the band of cv >= 30: max(0, 40 - (cv - 30)), as an integer
CvLastBand ==
    cv_in >= 300 => cv_score = IntOfTenths(Max(0, 400 - (cv_in - 300)))

\* C23 as stated: the score is an integer of 0..100, non-increasing in cv, in
\* [95,100] for cv < 5, in [80,90) for 5 <= cv < 10, in [60,80) for
\* 10 <= cv < 20, in [40,60) for 20 <= cv < 30, and max(0, 40 - (cv - 30)) for
\* cv >= 30
C23_HalfOpenBands ==
    CvScored =>
        /\ CvScoreMonotone
        /\ cv_in < 50 => cv_score \in 95..100
        /\ (cv_in >= 50 /\ cv_in < 100) => cv_score \in 80..89
        /\ (cv_in >= 100 /\ cv_in < 200) => cv_score \in 60..79
        /\ (cv_in >= 200 /\ cv_in < 300) => cv_score \in 40..59
        /\ CvLastBand

\* C23, amended: the score is an integer of 0..100, non-increasing in cv, in
\* [95,100] for cv < 5, in [80,90] for 5 <= cv < 10, in [60,80] for
\* 10 <= cv < 20, in [40,60] for 20 <= cv < 30, and the integer part of
\* max(0, 40 - (cv - 30)) for cv >= 30
C23_StabilityBands ==
    CvScored =>
        /\ CvScoreMonotone
        /\ cv_in < 50 => cv_score \in 95..100
        /\ (cv_in >= 50 /\ cv_in < 100) => cv_score \in 80..90
        /\ (cv_in >= 100 /\ cv_in < 200) => cv_score \in 60..80
        /\ (cv_in >= 200 /\ cv_in < 300) => cv_score \in 40..60
        /\ CvLastBand

\* cv = 5 exactly scores 90, the top of its band
C23_Witness == CvScored /\ cv_in = 50 /\ cv_score = 90


\* the ping of the scored test result gave at least one delay sample
PingSucceeded ==
    /\ test_results.ping.success
    /\ ~IsNone(test_results.ping.avg_delay)

\* C22: for a target whose ping succeeded, calculate_proxy_score never raises
\* and returns a complete score set, whatever metric is absent (loss_rate or
\* jitter None, empty tcp, http, stability or download results), and a
\* dimension none of whose inputs is present contributes 0
C22_MissingInputsScoreZero ==
    (spc = "scored" /\ PingSucceeded) =>
        /\ ~score_out.raised
        /\ ~score_out.scores.empty
        /\ (test_results.tcp.empty /\ test_results.http.empty) =>
               score_out.scores.responsiveness = 0
        /\ (/\ IsNone(test_results.ping.loss_rate)
            /\ IsNone(test_results.ping.jitter)
            /\ test_results.stability.empty) =>
               score_out.scores.stability = 0


\* the deep probes that returned
Probed == {t \in Targets : deep[t].st \in {"finished", "collected"} /\ ~deep[t].raised}

\* C24: with enable_multi_round set the deep probe of each target runs its
\* probe steps test_rounds times, and without it exactly once
C24_MultiRound ==
    \A t \in Probed :
        deep[t].ret.rounds = IF enable_multi_round THEN test_rounds ELSE 1


\* the successful entries in the Ranking & Tiering order
TierRanked == SelectSeq(sort_results(results, "quality"), IsSuccess)

\* C25: the rank stored in the snapshot, and the current rank of the
\* comparison, is the entry's 1-based position among the successful entries in
\* the Ranking & Tiering order; an entry of the 0%-loss tier is never stored
\* behind an entry of a higher-loss tier
C25_HistoryConsumesRanking ==
    hpc # "unsaved" =>
        /\ history_file.results = SavedResults(KeysAndScores(TierRanked))
        /\ successful_results = KeysAndScores(TierRanked)
        /\ \A i, j \in 1..Len(SuccessfulResults(results)) :
            (TierOf(SuccessfulResults(results)[i]) < TierOf(SuccessfulResults(results)[j]))
                => i < j


\* the rounds in which the metric is present and not None
RoundsWithValue == {i \in 1..Len(rounds_data) : rounds_data[i] \notin {Absent, NoneVal}}

\* sub is what is left of full after some of its elements are taken out
RECURSIVE IsSubSeq(_, _)
IsSubSeq(sub, full) ==
    IF sub = <<>> THEN TRUE
    ELSE IF full = <<>> THEN FALSE
    ELSE IF Head(sub) = Head(full) THEN IsSubSeq(Tail(sub), Tail(full))
    ELSE IsSubSeq(sub, Tail(full))

\* the values of the rounds that carry one, in round order
Extracted ==
    LET Carries(i) == i \in RoundsWithValue
        rounds == SelectSeq([i \in 1..Len(rounds_data) |-> i], Carries)
    IN  [k \in 1..Len(rounds) |-> rounds_data[rounds[k]]]

\* C27: original_count is the number of rounds in which the metric is present
\* and not None, filtered_count the number of values that survive the outlier
\* filter, 1 <= filtered_count <= original_count whenever original_count >= 1,
\* the surviving values are a sub-sequence of the extracted ones, and with no
\* round carrying the metric the value is None and both counts are 0
C27_AggregationCounts ==
    apc = "returned" =>
        /\ aggregated.original_count = Cardinality(RoundsWithValue)
        /\ aggregated.filtered_count = Len(filtered_values)
        /\ IsSubSeq(filtered_values, Extracted)
        /\ aggregated.original_count >= 1 =>
            /\ aggregated.filtered_count >= 1
            /\ aggregated.filtered_count <= aggregated.original_count
            /\ ~aggregated.value.none
        /\ RoundsWithValue = {} =>
            /\ aggregated.value.none
            /\ aggregated.filtered_count = 0
            /\ aggregated.original_count = 0

\* a round with the metric None, five rounds with a value, and one of the
\* five values taken out as an outlier
C27_Witness ==
    /\ apc = "returned"
    /\ \E i \in 1..Len(rounds_data) : rounds_data[i] = NoneVal
    /\ aggregated.original_count = 5
    /\ aggregated.filtered_count = 4


\* the successful entries of the best list run, best first
BestRanked == SelectSeq(sort_results(best_results, "overall"), IsSuccess)

\* host[:port] of a line by the rule of the normalized target
NormalizedHost(line) ==
    IF HasPort(line) THEN Strip(FirstPart(Remainder(line), ":")) ELSE Remainder(line)
NormalizedPort(line) == IF HasPort(line) THEN PortOf(line) ELSE NoPort

\* line i of the file: from entry i of the ranked successful entries, its
\* host[:port] the normalized target, no advertising token in its tag
BestLineWellFormed(i) ==
    /\ best_file[i].host = NormalizedHost(BestRanked[i].original)
    /\ best_file[i].port = NormalizedPort(BestRanked[i].original)
    /\ best_file[i].tag # <<>>
    /\ \A token \in AdTokens : ~Contains(best_file[i].tag, token)

BestLineInOrder(i) ==
    /\ best_file[i].host = NormalizedHost(BestRanked[i].original)
    /\ best_file[i].tag # <<>>
    /\ \A token \in AdTokens : ~Contains(best_file[i].tag, token)

\* C26: the best list has one line for each of the first N successful entries
\* of the ranked order, at most N lines, every line is host[:port]#tag with
\* host[:port] the normalized target and a tag free of the advertising tokens
\* of the input comment; with no successful entry the file stays as it was
C26_BestList ==
    bpc = "saved" =>
        IF BestRanked = <<>> THEN best_file = ExistingFile
        ELSE /\ Len(best_file) = Min(top_n, Len(BestRanked))
             /\ \A i \in 1..Len(best_file) : BestLineWellFormed(i)

\* the same without the port of the lines
C26_BestListButPorts ==
    bpc = "saved" =>
        IF BestRanked = <<>> THEN best_file = ExistingFile
        ELSE /\ Len(best_file) = Min(top_n, Len(BestRanked))
             /\ \A i \in 1..Len(best_file) : BestLineInOrder(i)


\* loss rate and average delay of the entry were both measured
Measured(r) ==
    /\ r.success
    /\ r.ping.loss_rate \notin {NoneVal, Absent}
    /\ r.ping.avg_delay \notin {NoneVal, Absent}

\* the order the claim states for mode by, on the measured values themselves
MetricKey(r, by) ==
    IF by = "loss" THEN <<r.ping.loss_rate, r.ping.avg_delay>>
    ELSE IF by = "delay" THEN <<r.ping.avg_delay, r.ping.loss_rate>>
    ELSE <<0 - r.scores.overall, r.ping.loss_rate, r.ping.avg_delay>>

\* C28: sort_results returns the successful entries in non-decreasing loss
\* rate, ties by delay, for sort_by = 'loss'; in non-decreasing delay, ties by
\* loss rate, for 'delay'; in non-increasing overall score, ties by lower loss
\* rate and then lower delay, for 'overall'; a measured 0 is ordered as 0; in
\* every mode the failed entries come after the successful ones
C28_MetricSortOrders ==
    rpc = "ranked" =>
        /\ \A i, j \in 1..Len(ranked) :
            (~ranked[i].success /\ ranked[j].success) => j < i
        /\ sort_by \in {"loss", "delay", "overall"} =>
            \A i, j \in 1..Len(ranked) :
                (i < j /\ Measured(ranked[i]) /\ Measured(ranked[j])) =>
                    ~TupleLess(MetricKey(ranked[j], sort_by), MetricKey(ranked[i], sort_by))

\* the same for entries none of whose measured values is 0
C28_OrdersOfNonZeroValues ==
    rpc = "ranked" =>
        /\ \A i, j \in 1..Len(ranked) :
            (~ranked[i].success /\ ranked[j].success) => j < i
        /\ sort_by \in {"loss", "delay", "overall"} =>
            \A i, j \in 1..Len(ranked) :
                (/\ i < j /\ Measured(ranked[i]) /\ Measured(ranked[j])
                 /\ ranked[i].ping.loss_rate # 0 /\ ranked[j].ping.loss_rate # 0) =>
                    ~TupleLess(MetricKey(ranked[j], sort_by), MetricKey(ranked[i], sort_by))


\* C29: a result set compared with the snapshot that was just saved from it
\* shows no new key, no removed key, no rank change, no score change and an
\* average score change of 0, also when several successful entries share one
\* history key
C29_SelfDiffEmpty ==
    (hpc \in {"compared", "skipped"} /\ history_file = save_history(results)) =>
        /\ hpc = "compared"
        /\ comparison.new_ips = {}
        /\ comparison.removed_ips = {}
        /\ comparison.rank_changes = {}
        /\ comparison.score_changes = {}
        /\ ScoreDiffsTotal(successful_results, history) = 0

\* no two successful entries of the result set have one history key
KeysDistinct ==
    \A i, j \in 1..Len(successful_results) :
        successful_results[i].key = successful_results[j].key => i = j

\* the self-diff of a result set whose history keys are distinct
C29_SelfDiffOfDistinctKeys ==
    (hpc \in {"compared", "skipped"} /\ KeysDistinct) =>
        /\ hpc = "compared"
        /\ comparison.new_ips = {}
        /\ comparison.removed_ips = {}
        /\ comparison.rank_changes = {}
        /\ comparison.score_changes = {}
        /\ ScoreDiffsTotal(successful_results, history) = 0


\* the quick checks or deep probes a worker is executing
InFlight(futures) == {t \in Targets : futures[t].st = "running"}

\* a deep probe of some target was submitted
Phase2Started == \E t \in Targets : deep[t].st # "none"

====
